---- MODULE Spec2Model ----
(***************************************************************************)
(* The game coordinator of dnsrp (src/gameserver/main.go): the request     *)
(* rendezvous between the /dnsrequest handler (admission), the /assign     *)
(* handler (FetchAssignment) and the /submitaction handler                 *)
(* (SubmitDecision).                                                       *)
(*                                                                         *)
(* Every handler invocation is a goroutine.  One action of the model is    *)
(* one critical section, one sync.Map operation or one channel operation   *)
(* of a handler, so that the handlers interleave where the code lets them. *)
(*                                                                         *)
(* A DNSRequest is a heap object (the handlers share *DNSRequest           *)
(* pointers): object r is the request of the r-th /dnsrequest call.  Its   *)
(* RequestID is the reading of the nanosecond clock that                   *)
(* generateRequestID takes; dnsRequests and pendingActions are keyed by    *)
(* that id.                                                                *)
(*                                                                         *)
(* Time: `now' is the wall clock in seconds, advanced by Tick in steps of  *)
(* TickStep.  A timer that has expired fires before the clock advances     *)
(* again, and the statements of a handler that do not block take less     *)
(* than one clock step: the clock advances only when no goroutine can run. *)
(*                                                                         *)
(* Further sections: the sweeper, the players table of db.go and the       *)
(* persistence loop, shutdown and restart of the process (main), the       *)
(* CoreDNS plugin (dnsrp.go), the two mutexes of /assign lock by lock,     *)
(* /register and /leaderboard, the plugin and the coordinator joined by    *)
(* the POST of a query, and the JobQueue of queue.go.                      *)
(***************************************************************************)
EXTENDS Integers, Sequences, FiniteSets, TLC

\* ---- bounds of the model ----
MaxReq == 2          \* /dnsrequest calls
MaxPlayers == 2      \* players that register
MaxFetch == 2        \* /assign calls
MaxSubmit == 1       \* /submitaction calls
MaxQuery == 2        \* DNS queries that reach the plugin
MaxRegister == 2     \* /register calls
MaxJobs == 3         \* jobs submitted to the JobQueue
MaxWorkers == 2      \* workers of the JobQueue
JobBufferSize == 1   \* capacity of the JobQueue's channel
TickStep == 15       \* seconds per clock step
MaxTime == 30        \* no admission starts that could not expire by then
MaxDNSQueueSize == 1 \* capacity of dnsRequestChan (10000 in the program)

\* ---- program constants ----
RequestTimeout == 30     \* time.After(30 * time.Second)
ActionChanSize == 1      \* make(chan string, 1)

Requests == 1..MaxReq
PlayerIds == 1..MaxPlayers
FetchCalls == 1..MaxFetch
SubmitCalls == 1..MaxSubmit
Queries == 1..MaxQuery
RegisterCalls == 1..MaxRegister
Jobs == 1..MaxJobs
Workers == 1..MaxWorkers
NoId == 0                \* the empty string "" of a request or player id

ValidActions == {"correct", "corrupt", "delay", "nxdomain"}
EvilActions == {"corrupt", "delay", "nxdomain"}
Actions == ValidActions \cup {"bogus"}

VARIABLES
    now,            \* wall clock, seconds
    clock,          \* last reading of the nanosecond clock used for an id
    req,            \* heap of DNSRequest objects: RequestID, Assigned, Timestamp
    dnsRequests,    \* map RequestID -> *DNSRequest
    pendingActions, \* sync.Map RequestID -> action channel (named by its request)
    actionChan,     \* buffer of the action channel made by each /dnsrequest call
    dnsRequestChan, \* buffered channel of *DNSRequest
    players,        \* map player id -> Player
    admit,          \* /dnsrequest handlers: pc, action sent, status, how it woke
    fetch,          \* /assign handlers
    submit,         \* /submitaction handlers
    db,             \* rows of the players table: id -> pure_points, evil_points
    creating,       \* players whose db.CreatePlayer goroutine has not run yet
    server,         \* the process: running, draining until a deadline, or exited
    plugin,         \* ServeDNS calls of the CoreDNS plugin
    register,       \* /register handlers: nickname, status and body of the response
    jobQueue        \* a queue.JobQueue: buffer, shutdown channel, workers

vars == <<now, clock, req, dnsRequests, pendingActions, actionChan,
          dnsRequestChan, players, admit, fetch, submit, db, creating, server,
          plugin, register, jobQueue>>

\* ---- maps ----
MapPut(m, k, v) == [x \in (DOMAIN m) \cup {k} |-> IF x = k THEN v ELSE m[x]]
MapDel(m, k) == [x \in (DOMAIN m) \ {k} |-> m[x]]
EmptyMap == [x \in {} |-> 0]

Running == [phase |-> "running", deadline |-> 0, closed |-> FALSE]

\* a ServeDNS call that has not started
NoMsg == [Response |-> FALSE]
NoResult == [rcode |-> "none", failed |-> FALSE]
IdleQuery == [pc |-> "idle", question |-> NoMsg, action |-> "", err |-> "nil", slept |-> 0,
              wrote |-> NoMsg, called |-> FALSE, result |-> NoResult,
              posted |-> 0, stalled |-> FALSE]

\* a /register call that has not started
IdleRegister == [pc |-> "idle", nickname |-> "", status |-> 0, body |-> NoId]

\* queue.NewJobQueue: an empty buffer, an open shutdown channel, the workers
\* started and in their select; no job submitted, no Shutdown call yet
NewJobQueue ==
    [queue |-> <<>>, shutdown |-> "open",
     worker |-> [w \in Workers |-> [pc |-> "select", job |-> 0, attempts |-> 0]],
     job |-> [j \in Jobs |-> [state |-> "new", runs |-> 0]],
     caller |-> "idle"]

NewPlayer == [PurePoints |-> 0, EvilPoints |-> 0, PureDelta |-> 0,
              EvilDelta |-> 0, AssignedRequestID |-> NoId]

Init ==
    /\ now = 0
    /\ clock = 0
    /\ req = [r \in Requests |-> [RequestID |-> NoId, Assigned |-> FALSE, Timestamp |-> 0]]
    /\ dnsRequests = EmptyMap
    /\ pendingActions = EmptyMap
    /\ actionChan = [r \in Requests |-> <<>>]
    /\ dnsRequestChan = <<>>
    /\ players = EmptyMap
    /\ admit = [r \in Requests |-> [pc |-> "idle", action |-> "none", status |-> 0, woke |-> "none"]]
    /\ fetch = [h \in FetchCalls |-> [pc |-> "idle", player |-> NoId, req |-> 0,
                                     status |-> 0, fresh |-> FALSE]]
    /\ submit = [s \in SubmitCalls |-> [pc |-> "idle", player |-> NoId, requestID |-> NoId,
                                        action |-> "none", chan |-> 0, status |-> 0]]
    /\ db = EmptyMap
    /\ creating = {}
    /\ server = Running
    /\ plugin = [q \in Queries |-> IdleQuery]
    /\ register = [c \in RegisterCalls |-> IdleRegister]
    /\ jobQueue = NewJobQueue

\* ---- registerHandler ----
\* the player is stored in memory and a goroutine is started for db.CreatePlayer
Register(p) ==
    /\ server.phase = "running"
    /\ p \in PlayerIds
    /\ p = Cardinality(DOMAIN players) + 1
    /\ p \notin DOMAIN players \cup DOMAIN db
    /\ players' = MapPut(players, p, NewPlayer)
    /\ UNCHANGED <<now, clock, req, dnsRequests, pendingActions, actionChan,
                   dnsRequestChan, admit, fetch, submit>>
    /\ creating' = creating \cup {p}
    /\ UNCHANGED db
    /\ UNCHANGED <<server, plugin>>
    /\ UNCHANGED <<register, jobQueue>>

\* ---- generateRequestID ----
\* "req-%d" of time.Now().UnixNano(): the reading of the nanosecond clock, which
\* has advanced by adv since the reading before.  Under Spec two readings
\* always differ (adv = 1).
generateRequestID(adv) == clock + adv

\* ---- dnsRequestHandler ----
Deadline(r) == req[r].Timestamp + RequestTimeout

AdmitInsert(r, adv) ==
    /\ server.phase = "running"
    /\ admit[r].pc = "idle"
    /\ \A q \in Requests : q < r => admit[q].pc # "idle"
    /\ now + RequestTimeout <= MaxTime
    /\ LET id == generateRequestID(adv) IN
        /\ clock' = id
        /\ req' = [req EXCEPT ![r] = [RequestID |-> id, Assigned |-> FALSE, Timestamp |-> now]]
        /\ dnsRequests' = MapPut(dnsRequests, id, r)
    /\ admit' = [admit EXCEPT ![r].pc = "inserted"]
    /\ UNCHANGED <<now, pendingActions, actionChan, dnsRequestChan, players, fetch, submit>>
    /\ UNCHANGED <<db, creating>>
    /\ UNCHANGED <<server, plugin>>
    /\ UNCHANGED <<register, jobQueue>>

AdmitStore(r) ==
    /\ admit[r].pc = "inserted"
    /\ pendingActions' = MapPut(pendingActions, req[r].RequestID, r)
    /\ admit' = [admit EXCEPT ![r].pc = "stored"]
    /\ UNCHANGED <<now, clock, req, dnsRequests, actionChan, dnsRequestChan, players, fetch, submit>>
    /\ UNCHANGED <<db, creating>>
    /\ UNCHANGED <<server, plugin>>
    /\ UNCHANGED <<register, jobQueue>>

AdmitEnqueue(r) ==
    /\ admit[r].pc = "stored"
    /\ Len(dnsRequestChan) < MaxDNSQueueSize
    /\ dnsRequestChan' = Append(dnsRequestChan, r)
    /\ admit' = [admit EXCEPT ![r].pc = "waiting"]
    /\ UNCHANGED <<now, clock, req, dnsRequests, pendingActions, actionChan, players, fetch, submit>>
    /\ UNCHANGED <<db, creating>>
    /\ UNCHANGED <<server, plugin>>
    /\ UNCHANGED <<register, jobQueue>>

AdmitReject(r) ==
    /\ admit[r].pc = "stored"
    /\ Len(dnsRequestChan) >= MaxDNSQueueSize
    /\ admit' = [admit EXCEPT ![r].pc = "rejected", ![r].status = 503]
    /\ UNCHANGED <<now, clock, req, dnsRequests, pendingActions, actionChan,
                   dnsRequestChan, players, fetch, submit>>
    /\ UNCHANGED <<db, creating>>
    /\ UNCHANGED <<server, plugin>>
    /\ UNCHANGED <<register, jobQueue>>

AdmitBackoutDelete(r) ==
    /\ admit[r].pc = "rejected"
    /\ dnsRequests' = MapDel(dnsRequests, req[r].RequestID)
    /\ admit' = [admit EXCEPT ![r].pc = "backout"]
    /\ UNCHANGED <<now, clock, req, pendingActions, actionChan, dnsRequestChan, players, fetch, submit>>
    /\ UNCHANGED <<db, creating>>
    /\ UNCHANGED <<server, plugin>>
    /\ UNCHANGED <<register, jobQueue>>

\* mutant: the back-out forgets pendingActions.Delete
AdmitBackoutSlotKept(r) ==
    /\ admit[r].pc = "backout"
    /\ admit' = [admit EXCEPT ![r].pc = "done"]
    /\ UNCHANGED <<now, clock, req, dnsRequests, pendingActions, actionChan,
                   dnsRequestChan, players, fetch, submit>>
    /\ UNCHANGED <<db, creating>>
    /\ UNCHANGED <<server, plugin>>
    /\ UNCHANGED <<register, jobQueue>>

AdmitBackoutSlot(r) ==
    /\ admit[r].pc = "backout"
    /\ pendingActions' = MapDel(pendingActions, req[r].RequestID)
    /\ admit' = [admit EXCEPT ![r].pc = "done"]
    /\ UNCHANGED <<now, clock, req, dnsRequests, actionChan, dnsRequestChan, players, fetch, submit>>
    /\ UNCHANGED <<db, creating>>
    /\ UNCHANGED <<server, plugin>>
    /\ UNCHANGED <<register, jobQueue>>

\* mutant: the value is taken from the channel but the default is answered
AdmitReceiveAnswersDefault(r) ==
    /\ admit[r].pc = "waiting"
    /\ actionChan[r] # <<>>
    /\ admit' = [admit EXCEPT ![r] = [pc |-> "responded", action |-> "correct",
                                      status |-> 200, woke |-> "player"]]
    /\ actionChan' = [actionChan EXCEPT ![r] = Tail(@)]
    /\ UNCHANGED <<now, clock, req, dnsRequests, pendingActions, dnsRequestChan, players, fetch, submit>>
    /\ UNCHANGED <<db, creating>>
    /\ UNCHANGED <<server, plugin>>
    /\ UNCHANGED <<register, jobQueue>>

\* lines 247-249 and 256-257: the select receives the player's action
AdmitReceive(r) ==
    /\ admit[r].pc = "waiting"
    /\ actionChan[r] # <<>>
    /\ admit' = [admit EXCEPT ![r] = [pc |-> "responded", action |-> Head(actionChan[r]),
                                      status |-> 200, woke |-> "player"]]
    /\ actionChan' = [actionChan EXCEPT ![r] = Tail(@)]
    /\ UNCHANGED <<now, clock, req, dnsRequests, pendingActions, dnsRequestChan, players, fetch, submit>>
    /\ UNCHANGED <<db, creating>>
    /\ UNCHANGED <<server, plugin>>
    /\ UNCHANGED <<register, jobQueue>>

\* mutant: the timer is armed with twice the timeout
TimerFiredLate(r) == now >= Deadline(r) + RequestTimeout

TimerFired(r) == now >= Deadline(r)

AdmitTimeout(r) ==
    /\ admit[r].pc = "waiting"
    /\ TimerFired(r)
    /\ admit' = [admit EXCEPT ![r] = [pc |-> "responded", action |-> "correct",
                                      status |-> 200, woke |-> "timeout"]]
    /\ UNCHANGED <<now, clock, req, dnsRequests, pendingActions, actionChan,
                   dnsRequestChan, players, fetch, submit>>
    /\ UNCHANGED <<db, creating>>
    /\ UNCHANGED <<server, plugin>>
    /\ UNCHANGED <<register, jobQueue>>

AdmitCleanupDelete(r) ==
    /\ admit[r].pc = "responded"
    /\ dnsRequests' = MapDel(dnsRequests, req[r].RequestID)
    /\ admit' = [admit EXCEPT ![r].pc = "cleanup"]
    /\ UNCHANGED <<now, clock, req, pendingActions, actionChan, dnsRequestChan, players, fetch, submit>>
    /\ UNCHANGED <<db, creating>>
    /\ UNCHANGED <<server, plugin>>
    /\ UNCHANGED <<register, jobQueue>>

AdmitCleanupSlot(r) ==
    /\ admit[r].pc = "cleanup"
    /\ pendingActions' = MapDel(pendingActions, req[r].RequestID)
    /\ admit' = [admit EXCEPT ![r].pc = "done"]
    /\ UNCHANGED <<now, clock, req, dnsRequests, actionChan, dnsRequestChan, players, fetch, submit>>
    /\ UNCHANGED <<db, creating>>
    /\ UNCHANGED <<server, plugin>>
    /\ UNCHANGED <<register, jobQueue>>

\* ---- assignDNSRequestHandler ----
FetchDone(code) == [pc |-> "done", player |-> NoId, req |-> 0, status |-> code, fresh |-> FALSE]

\* mutant: the Assigned flag is tested the wrong way round
StillAssignedInverted(id) == id \in DOMAIN dnsRequests /\ ~req[dnsRequests[id]].Assigned

\* the assignment the player holds is still valid: present and Assigned
StillAssigned(id) == id \in DOMAIN dnsRequests /\ req[dnsRequests[id]].Assigned

\* lines 273-303: one critical section of playersMu
FetchCheck(h, p) ==
    /\ server.phase = "running"
    /\ fetch[h].pc = "idle"
    /\ \A g \in FetchCalls : g < h => fetch[g].pc # "idle"
    /\ IF p = NoId \/ p \notin DOMAIN players
       THEN /\ fetch' = [fetch EXCEPT ![h] = FetchDone(400)]
            /\ UNCHANGED players
       ELSE IF players[p].AssignedRequestID # NoId /\ StillAssigned(players[p].AssignedRequestID)
       THEN /\ fetch' = [fetch EXCEPT ![h] = [pc |-> "done", player |-> p,
                              req |-> dnsRequests[players[p].AssignedRequestID],
                              status |-> 200, fresh |-> FALSE]]
            /\ UNCHANGED players
       ELSE /\ players' = [players EXCEPT ![p].AssignedRequestID = NoId]
            /\ fetch' = [fetch EXCEPT ![h].pc = "dequeue", ![h].player = p]
    /\ UNCHANGED <<now, clock, req, dnsRequests, pendingActions, actionChan,
                   dnsRequestChan, admit, submit>>
    /\ UNCHANGED <<db, creating>>
    /\ UNCHANGED <<server, plugin>>
    /\ UNCHANGED <<register, jobQueue>>

\* mutant: the head is read but stays in the queue
FetchDequeueKeepsHead(h) ==
    /\ fetch[h].pc = "dequeue"
    /\ dnsRequestChan # <<>>
    /\ fetch' = [fetch EXCEPT ![h].pc = "assign", ![h].req = Head(dnsRequestChan)]
    /\ UNCHANGED <<now, clock, req, dnsRequests, pendingActions, actionChan,
                   dnsRequestChan, players, admit, submit>>
    /\ UNCHANGED <<db, creating>>
    /\ UNCHANGED <<server, plugin>>
    /\ UNCHANGED <<register, jobQueue>>

\* lines 306-308: case dnsReq := <-dnsRequestChan
FetchDequeue(h) ==
    /\ fetch[h].pc = "dequeue"
    /\ dnsRequestChan # <<>>
    /\ fetch' = [fetch EXCEPT ![h].pc = "assign", ![h].req = Head(dnsRequestChan)]
    /\ dnsRequestChan' = Tail(dnsRequestChan)
    /\ UNCHANGED <<now, clock, req, dnsRequests, pendingActions, actionChan,
                   players, admit, submit>>
    /\ UNCHANGED <<db, creating>>
    /\ UNCHANGED <<server, plugin>>
    /\ UNCHANGED <<register, jobQueue>>

\* lines 327-331: default
FetchNone(h) ==
    /\ fetch[h].pc = "dequeue"
    /\ dnsRequestChan = <<>>
    /\ fetch' = [fetch EXCEPT ![h] = FetchDone(204)]
    /\ UNCHANGED <<now, clock, req, dnsRequests, pendingActions, actionChan,
                   dnsRequestChan, players, admit, submit>>
    /\ UNCHANGED <<db, creating>>
    /\ UNCHANGED <<server, plugin>>
    /\ UNCHANGED <<register, jobQueue>>

\* lines 311-326: second critical section of playersMu
FetchAssign(h) ==
    /\ fetch[h].pc = "assign"
    /\ LET p == fetch[h].player
           o == fetch[h].req
       IN IF p \notin DOMAIN players
          THEN /\ dnsRequestChan' = Append(dnsRequestChan, o)
               /\ fetch' = [fetch EXCEPT ![h] = FetchDone(400)]
               /\ UNCHANGED <<req, players>>
          ELSE /\ req' = [req EXCEPT ![o].Assigned = TRUE]
               /\ players' = [players EXCEPT ![p].AssignedRequestID = req[o].RequestID]
               /\ fetch' = [fetch EXCEPT ![h].pc = "done", ![h].status = 200, ![h].fresh = TRUE]
               /\ UNCHANGED dnsRequestChan
    /\ UNCHANGED <<now, clock, dnsRequests, pendingActions, actionChan, admit, submit>>
    /\ UNCHANGED <<db, creating>>
    /\ UNCHANGED <<server, plugin>>
    /\ UNCHANGED <<register, jobQueue>>

\* ---- submitActionHandler ----
SubmitDone(code) == [pc |-> "done", player |-> NoId, requestID |-> NoId,
                     action |-> "none", chan |-> 0, status |-> code]

\* lines 354-372: the player exists and holds this request (two read sections
\* of playersMu; players are never removed, so they act as one)
SubmitValidatePlayer(s, p, id, act) ==
    /\ server.phase = "running"
    /\ submit[s].pc = "idle"
    /\ \A t \in DOMAIN submit : t < s => submit[t].pc # "idle"
    /\ IF p \notin DOMAIN players
       THEN submit' = [submit EXCEPT ![s] = SubmitDone(400)]
       ELSE IF players[p].AssignedRequestID # id
       THEN submit' = [submit EXCEPT ![s] = SubmitDone(400)]
       ELSE submit' = [submit EXCEPT ![s] = [pc |-> "validate", player |-> p, requestID |-> id,
                                             action |-> act, chan |-> 0, status |-> 0]]
    /\ UNCHANGED <<now, clock, req, dnsRequests, pendingActions, actionChan,
                   dnsRequestChan, players, admit, fetch>>
    /\ UNCHANGED <<db, creating>>
    /\ UNCHANGED <<server, plugin>>
    /\ UNCHANGED <<register, jobQueue>>

\* lines 374-382: the request is present and Assigned
SubmitValidateRequest(s) ==
    /\ submit[s].pc = "validate"
    /\ IF StillAssigned(submit[s].requestID)
       THEN submit' = [submit EXCEPT ![s].pc = "score"]
       ELSE submit' = [submit EXCEPT ![s] = SubmitDone(400)]
    /\ UNCHANGED <<now, clock, req, dnsRequests, pendingActions, actionChan,
                   dnsRequestChan, players, admit, fetch>>
    /\ UNCHANGED <<db, creating>>
    /\ UNCHANGED <<server, plugin>>
    /\ UNCHANGED <<register, jobQueue>>

\* mutant: every valid action scores a pure point
ScoreAlwaysPure(pl, act) ==
    [pl EXCEPT !.PurePoints = @ + 1, !.PureDelta = @ + 1, !.AssignedRequestID = NoId]

\* lines 384-403: score and clear the assignment, under playersMu
Score(pl, act) ==
    IF act = "correct"
    THEN [pl EXCEPT !.PurePoints = @ + 1, !.PureDelta = @ + 1, !.AssignedRequestID = NoId]
    ELSE [pl EXCEPT !.EvilPoints = @ + 1, !.EvilDelta = @ + 1, !.AssignedRequestID = NoId]

\* mutant: the point is scored before the action is validated
SubmitScoreThenReject(s) ==
    /\ submit[s].pc = "score"
    /\ players' = [players EXCEPT ![submit[s].player] = Score(@, submit[s].action)]
    /\ IF submit[s].action \in {"correct"} \cup EvilActions
       THEN submit' = [submit EXCEPT ![s].pc = "notify"]
       ELSE submit' = [submit EXCEPT ![s] = SubmitDone(400)]
    /\ UNCHANGED <<now, clock, req, dnsRequests, pendingActions, actionChan,
                   dnsRequestChan, admit, fetch>>
    /\ UNCHANGED <<db, creating>>
    /\ UNCHANGED <<server, plugin>>
    /\ UNCHANGED <<register, jobQueue>>

SubmitScore(s) ==
    /\ submit[s].pc = "score"
    /\ IF submit[s].action \in {"correct"} \cup EvilActions
       THEN /\ players' = [players EXCEPT ![submit[s].player] = Score(@, submit[s].action)]
            /\ submit' = [submit EXCEPT ![s].pc = "notify"]
       ELSE /\ submit' = [submit EXCEPT ![s] = SubmitDone(400)]
            /\ UNCHANGED players
    /\ UNCHANGED <<now, clock, req, dnsRequests, pendingActions, actionChan,
                   dnsRequestChan, admit, fetch>>
    /\ UNCHANGED <<db, creating>>
    /\ UNCHANGED <<server, plugin>>
    /\ UNCHANGED <<register, jobQueue>>

\* line 407: pendingActions.Load
SubmitLoad(s) ==
    /\ submit[s].pc = "notify"
    /\ IF submit[s].requestID \in DOMAIN pendingActions
       THEN submit' = [submit EXCEPT ![s].pc = "send", ![s].chan = pendingActions[submit[s].requestID]]
       ELSE submit' = [submit EXCEPT ![s].pc = "done", ![s].status = 200]
    /\ UNCHANGED <<now, clock, req, dnsRequests, pendingActions, actionChan,
                   dnsRequestChan, players, admit, fetch>>
    /\ UNCHANGED <<db, creating>>
    /\ UNCHANGED <<server, plugin>>
    /\ UNCHANGED <<register, jobQueue>>

\* lines 410-417: actionChan <- actionReq.Action, which blocks while the buffer
\* is full; nothing between the send and WriteHeader(200) can fail
SubmitSend(s) ==
    /\ submit[s].pc = "send"
    /\ Len(actionChan[submit[s].chan]) < ActionChanSize
    /\ actionChan' = [actionChan EXCEPT ![submit[s].chan] = Append(@, submit[s].action)]
    /\ submit' = [submit EXCEPT ![s].pc = "done", ![s].status = 200]
    /\ UNCHANGED <<now, clock, req, dnsRequests, pendingActions, dnsRequestChan,
                   players, admit, fetch>>
    /\ UNCHANGED <<db, creating>>
    /\ UNCHANGED <<server, plugin>>
    /\ UNCHANGED <<register, jobQueue>>

\* ---- the wall clock ----
\* a goroutine that can take its next step without waiting for time to pass
AdmitRunnable(r) ==
    \/ admit[r].pc \in {"inserting", "inserted", "stored", "rejected", "backout",
                         "responded", "cleanup"}
    \/ admit[r].pc = "waiting" /\ (TimerFired(r) \/ actionChan[r] # <<>>)
FetchRunnable(h) == fetch[h].pc \in {"dequeue", "assign", "locked", "reading"}
SubmitRunnable(s) ==
    \/ submit[s].pc \in {"validate", "score", "notify"}
    \/ submit[s].pc = "send" /\ Len(actionChan[submit[s].chan]) < ActionChanSize

\* a handler that has started and not yet returned: its connection is active
InProgress(pc) == pc \notin {"idle", "done", "aborted"}
ActiveConns ==
    \/ \E r \in Requests : InProgress(admit[r].pc)
    \/ \E h \in FetchCalls : InProgress(fetch[h].pc)
    \/ \E s \in DOMAIN submit : InProgress(submit[s].pc)
\* server.Shutdown(ctx) can return: every connection is idle, or ctx is done
ShutdownRunnable ==
    /\ server.phase = "draining"
    /\ (~ActiveConns \/ now >= server.deadline)

Tick ==
    /\ \A r \in Requests : ~AdmitRunnable(r)
    /\ \A h \in FetchCalls : ~FetchRunnable(h)
    /\ \A s \in DOMAIN submit : ~SubmitRunnable(s)
    /\ ~ShutdownRunnable
    /\ \/ now + TickStep <= MaxTime
       \/ \E r \in Requests : admit[r].pc = "waiting"
       \/ server.phase = "draining"
    /\ now' = now + TickStep
    /\ UNCHANGED <<clock, req, dnsRequests, pendingActions, actionChan,
                   dnsRequestChan, players, admit, fetch, submit>>
    /\ UNCHANGED <<db, creating>>
    /\ UNCHANGED <<server, plugin>>
    /\ UNCHANGED <<register, jobQueue>>

\* ---- the coordinator ----
Next ==
    \/ Tick
    \/ \E p \in PlayerIds : Register(p)
    \/ \E r \in Requests : AdmitInsert(r, 1)
    \/ \E r \in Requests : AdmitStore(r)
    \/ \E r \in Requests : AdmitEnqueue(r)
    \/ \E r \in Requests : AdmitReject(r)
    \/ \E r \in Requests : AdmitBackoutDelete(r)
    \/ \E r \in Requests : AdmitBackoutSlot(r)
    \/ \E r \in Requests : AdmitReceive(r)
    \/ \E r \in Requests : AdmitTimeout(r)
    \/ \E r \in Requests : AdmitCleanupDelete(r)
    \/ \E r \in Requests : AdmitCleanupSlot(r)
    \/ \E h \in FetchCalls, p \in {NoId} \cup PlayerIds : FetchCheck(h, p)
    \/ \E h \in FetchCalls : FetchDequeue(h)
    \/ \E h \in FetchCalls : FetchNone(h)
    \/ \E h \in FetchCalls : FetchAssign(h)
    \/ \E s \in SubmitCalls, p \in PlayerIds, id \in {NoId} \cup Requests, act \in Actions :
           SubmitValidatePlayer(s, p, id, act)
    \/ \E s \in SubmitCalls : SubmitValidateRequest(s)
    \/ \E s \in SubmitCalls : SubmitScore(s)
    \/ \E s \in SubmitCalls : SubmitLoad(s)
    \/ \E s \in SubmitCalls : SubmitSend(s)

Spec == Init /\ [][Next]_vars

\* Goroutines that can run are scheduled, timers fire and time passes.
AdmitStep(r) ==
    \/ AdmitStore(r) \/ AdmitEnqueue(r) \/ AdmitReject(r)
    \/ AdmitBackoutDelete(r) \/ AdmitBackoutSlot(r)
    \/ AdmitReceive(r) \/ AdmitTimeout(r)
    \/ AdmitCleanupDelete(r) \/ AdmitCleanupSlot(r)
FetchStep(h) == FetchDequeue(h) \/ FetchNone(h) \/ FetchAssign(h)
SubmitStep(s) == SubmitValidateRequest(s) \/ SubmitScore(s) \/ SubmitLoad(s) \/ SubmitSend(s)

FairSpec ==
    /\ Spec
    /\ WF_vars(Tick)
    /\ \A r \in Requests : WF_vars(AdmitStep(r))
    /\ \A h \in FetchCalls : WF_vars(FetchStep(h))
    /\ \A s \in SubmitCalls : WF_vars(SubmitStep(s))

\* ======================= the claims =======================

Answered(r) == admit[r].pc \in {"responded", "cleanup", "done"} /\ admit[r].status = 200
Returned200(s) == submit[s].pc = "done" /\ submit[s].status = 200

\* C1: an admission that was answered was answered either with an action that a
\* /submitaction call returning 200 sent for its request id, or with "correct"
\* once 30 s had passed since its admission; no admission is still waiting one
\* clock step after its deadline; and every admission that waits returns.
C1_AnswerIsSubmittedOrDefault(r) ==
    Answered(r) =>
        \/ /\ admit[r].woke = "player"
           /\ \E s \in SubmitCalls :
                /\ Returned200(s)
                /\ submit[s].requestID = req[r].RequestID
                /\ submit[s].action = admit[r].action
        \/ /\ admit[r].woke = "timeout"
           /\ admit[r].action = "correct"
           /\ now >= req[r].Timestamp + 30
C1_NotBlockedPastDeadline(r) ==
    admit[r].pc = "waiting" => now < req[r].Timestamp + 30 + TickStep
C1_AdmitReturns ==
    /\ [](\A r \in Requests : C1_AnswerIsSubmittedOrDefault(r) /\ C1_NotBlockedPastDeadline(r))
    /\ \A r \in Requests : (admit[r].pc = "waiting") ~> (admit[r].pc = "done")
C1_Witness ==
    /\ \E r \in Requests : admit[r].pc = "done" /\ admit[r].woke = "player"
    /\ \E r \in Requests : admit[r].pc = "done" /\ admit[r].woke = "timeout"

\* C2: a /submitaction call that returned 200 determines the answer of the
\* /dnsrequest call of its request: once that call is answered, it carries
\* the submitted action.
C2_SubmitDeterminesAnswer ==
    \A s \in SubmitCalls : \A r \in Requests :
        (Returned200(s) /\ submit[s].requestID = req[r].RequestID /\ Answered(r))
            => admit[r].action = submit[s].action

\* C3: no request is obtained from the pending queue by two /assign calls, so
\* no request is a new assignment of two players.
Obtained(h) == fetch[h].pc = "assign" \/ (fetch[h].pc = "done" /\ fetch[h].fresh)
C3_OnePlayerPerRequest ==
    \A h1, h2 \in FetchCalls :
        (h1 # h2 /\ Obtained(h1) /\ Obtained(h2)) => fetch[h1].req # fetch[h2].req
C3_Witness ==
    \E h1, h2 \in FetchCalls :
        /\ fetch[h1].pc = "assign" /\ fetch[h2].pc = "dequeue"
        /\ fetch[h1].player # fetch[h2].player
        /\ dnsRequestChan = <<>>

\* C4: the request a player holds is present in dnsRequests with Assigned = true.
PresentAndAssigned(id) == id \in DOMAIN dnsRequests /\ req[dnsRequests[id]].Assigned
C4_AssignmentIsPresent ==
    \A p \in DOMAIN players :
        players[p].AssignedRequestID # NoId => PresentAndAssigned(players[p].AssignedRequestID)

\* C5: the requests waiting in the pending queue plus the assigned requests
\* still waiting for their answer are at most the capacity of the queue.
PendingActive(r) ==
    admit[r].pc = "waiting" /\ \E i \in 1..Len(dnsRequestChan) : dnsRequestChan[i] = r
AssignedActive(r) == admit[r].pc = "waiting" /\ req[r].Assigned
C5_PendingPlusAssignedBounded ==
    Cardinality({r \in Requests : PendingActive(r) \/ AssignedActive(r)}) <= MaxDNSQueueSize

\* C6: the request an /assign call takes from the pending queue is eligible
\* (not Assigned, its admission not yet answered) and no eligible request
\* stands before it in the queue.
Eligible(r) == ~req[r].Assigned /\ admit[r].pc = "waiting"
QueuePos(r) == CHOOSE i \in 1..Len(dnsRequestChan) : dnsRequestChan[i] = r
C6_EarliestEligibleWins ==
    [][\A h \in FetchCalls :
         (fetch[h].pc = "dequeue" /\ fetch'[h].pc = "assign") =>
            /\ Eligible(fetch'[h].req)
            /\ \A i \in 1..Len(dnsRequestChan) :
                 Eligible(dnsRequestChan[i]) => QueuePos(fetch'[h].req) <= i]_vars

\* C7: the step of /submitaction that makes the call succeed adds exactly one
\* point to the player: a pure point and pureDelta for "correct", an evil point
\* and evilDelta for "corrupt", "delay", "nxdomain"; and clears the assignment.
C7_Scored(old, new, a) ==
    /\ new.PurePoints + new.EvilPoints = old.PurePoints + old.EvilPoints + 1
    /\ a \in {"correct", "corrupt", "delay", "nxdomain"}
    /\ a = "correct" =>
         /\ new.PurePoints = old.PurePoints + 1 /\ new.PureDelta = old.PureDelta + 1
         /\ new.EvilPoints = old.EvilPoints /\ new.EvilDelta = old.EvilDelta
    /\ a \in {"corrupt", "delay", "nxdomain"} =>
         /\ new.EvilPoints = old.EvilPoints + 1 /\ new.EvilDelta = old.EvilDelta + 1
         /\ new.PurePoints = old.PurePoints /\ new.PureDelta = old.PureDelta
    /\ new.AssignedRequestID = NoId
C7_SubmitScoresOnePoint ==
    [][\A s \in SubmitCalls :
         (submit[s].pc = "score" /\ submit'[s].pc = "notify") =>
            C7_Scored(players[submit[s].player], players'[submit[s].player], submit[s].action)]_vars
C7_Witness ==
    \E s \in SubmitCalls :
        /\ Returned200(s) /\ submit[s].action = "nxdomain"
        /\ players[submit[s].player].EvilPoints = 1
        /\ players[submit[s].player].PurePoints = 0

\* C8: an /assign call of a player whose assignment is present and Assigned
\* returns that request and leaves the pending queue and every player unchanged.
RequestOf(id) == CHOOSE o \in Requests : req[o].RequestID = id
C8_RefetchIsIdempotent ==
    [][\A h \in FetchCalls : \A p \in DOMAIN players :
         (/\ fetch[h].pc = "idle" /\ fetch'[h].pc # "idle" /\ fetch'[h].player = p
          /\ players[p].AssignedRequestID # NoId
          /\ PresentAndAssigned(players[p].AssignedRequestID)) =>
            /\ fetch'[h].pc = "done" /\ fetch'[h].status = 200
            /\ fetch'[h].req = RequestOf(players[p].AssignedRequestID)
            /\ dnsRequestChan' = dnsRequestChan
            /\ players' = players]_vars
C8_Witness ==
    \E h1, h2 \in FetchCalls :
        /\ fetch[h1].pc = "done" /\ fetch[h1].fresh
        /\ fetch[h2].pc = "done" /\ fetch[h2].status = 200 /\ ~fetch[h2].fresh
        /\ fetch[h2].req = fetch[h1].req /\ fetch[h2].player = fetch[h1].player
        /\ dnsRequestChan # <<>>

\* C9: the request an /assign call returns as a new assignment is not already
\* Assigned and its admission is still waiting for an action.
C9_AssignsOnlyWaiting ==
    [][\A h \in FetchCalls :
         (fetch[h].pc = "assign" /\ fetch'[h].pc = "done" /\ fetch'[h].status = 200) =>
            (~req[fetch[h].req].Assigned /\ admit[fetch[h].req].pc = "waiting")]_vars

\* C10: a request that an /assign call returns (newly assigned or served
\* again) has more than 15 s left before its 30 s deadline.
C10_MarginBeforeDeadline ==
    [][\A h \in FetchCalls :
         (fetch[h].pc # "done" /\ fetch'[h].pc = "done" /\ fetch'[h].status = 200) =>
            (req[fetch'[h].req].Timestamp + 30) - now > 15]_vars

\* ---- cleanupExpiredRequests ----
RequestExpiry == 300
SweepInterval == 60

Expired(id) == now - req[dnsRequests[id]].Timestamp > RequestExpiry

\* lines 496-506: one pass, a single critical section of dnsRequestsMu; the
\* first pass comes a minute after the start
cleanupExpiredRequests ==
    /\ server.phase # "exited"
    /\ now >= SweepInterval
    /\ dnsRequests' = [id \in {x \in DOMAIN dnsRequests : ~Expired(x)} |-> dnsRequests[id]]
    /\ UNCHANGED <<now, clock, req, pendingActions, actionChan, dnsRequestChan,
                   players, admit, fetch, submit>>
    /\ UNCHANGED <<db, creating>>
    /\ UNCHANGED <<server, plugin>>
    /\ UNCHANGED <<register, jobQueue>>

\* The goroutines are not scheduled for longer than the expiry (the process
\* is stopped, or starved): the clock passes whatever they were about to do.
Stall ==
    /\ now < RequestExpiry
    /\ now' = now + RequestExpiry + TickStep
    /\ UNCHANGED <<clock, req, dnsRequests, pendingActions, actionChan,
                   dnsRequestChan, players, admit, fetch, submit>>
    /\ UNCHANGED <<db, creating>>
    /\ UNCHANGED <<server, plugin>>
    /\ UNCHANGED <<register, jobQueue>>

\* the coordinator with its sweeper, when goroutines can be delayed
SweepNext ==
    \/ Next
    \/ Stall
    \/ cleanupExpiredRequests

SweepSpec == Init /\ [][SweepNext]_vars

\* ---- two concurrent /submitaction calls ----
\* One request, one player and two /submitaction calls that name them: the
\* handlers of net/http run concurrently, one goroutine per connection.
RaceSubmitCalls == 1..(MaxSubmit + 1)
RaceActions == {"correct", "corrupt"}

RaceInit ==
    /\ now = 0
    /\ clock = 0
    /\ req = [r \in Requests |-> [RequestID |-> NoId, Assigned |-> FALSE, Timestamp |-> 0]]
    /\ dnsRequests = EmptyMap
    /\ pendingActions = EmptyMap
    /\ actionChan = [r \in Requests |-> <<>>]
    /\ dnsRequestChan = <<>>
    /\ players = EmptyMap
    /\ admit = [r \in Requests |-> [pc |-> "idle", action |-> "none", status |-> 0, woke |-> "none"]]
    /\ fetch = [h \in FetchCalls |-> [pc |-> "idle", player |-> NoId, req |-> 0,
                                     status |-> 0, fresh |-> FALSE]]
    /\ submit = [s \in RaceSubmitCalls |-> [pc |-> "idle", player |-> NoId, requestID |-> NoId,
                                            action |-> "none", chan |-> 0, status |-> 0]]
    /\ db = EmptyMap
    /\ creating = {}
    /\ server = Running
    /\ plugin = [q \in Queries |-> IdleQuery]
    /\ register = [c \in RegisterCalls |-> IdleRegister]
    /\ jobQueue = NewJobQueue

RaceNext ==
    \/ Tick
    \/ Register(1)
    \/ AdmitInsert(1, 1)
    \/ AdmitStore(1)
    \/ AdmitEnqueue(1)
    \/ AdmitReceive(1)
    \/ AdmitTimeout(1)
    \/ AdmitCleanupDelete(1)
    \/ AdmitCleanupSlot(1)
    \/ \E h \in FetchCalls : FetchCheck(h, 1)
    \/ \E h \in FetchCalls : FetchDequeue(h)
    \/ \E h \in FetchCalls : FetchNone(h)
    \/ \E h \in FetchCalls : FetchAssign(h)
    \/ \E s \in RaceSubmitCalls, act \in RaceActions : SubmitValidatePlayer(s, 1, 1, act)
    \/ \E s \in RaceSubmitCalls : SubmitValidateRequest(s)
    \/ \E s \in RaceSubmitCalls : SubmitScore(s)
    \/ \E s \in RaceSubmitCalls : SubmitLoad(s)
    \/ \E s \in RaceSubmitCalls : SubmitSend(s)

RaceSpec == RaceInit /\ [][RaceNext]_vars

\* ---- the players table (db.go) ----
SyncInterval == 30
NewRow == [pure_points |-> 0, evil_points |-> 0]

\* db.CreatePlayer, run by the goroutine that registerHandler starts: the
\* INSERT stores a row with zero points, or fails and is only logged
CreatePlayer(p, ok) ==
    /\ p \in creating
    /\ creating' = creating \ {p}
    /\ db' = IF ok THEN MapPut(db, p, NewRow) ELSE db
    /\ UNCHANGED <<now, clock, req, dnsRequests, pendingActions, actionChan,
                   dnsRequestChan, players, admit, fetch, submit>>
    /\ UNCHANGED <<server, plugin>>
    /\ UNCHANGED <<register, jobQueue>>

\* db.AddPlayerPoints when Exec returns no error: UPDATE ... WHERE id = ?
\* changes the row of that id, and nothing when there is no such row
AddPlayerPoints(rows, id, pureDelta, evilDelta) ==
    IF id \in DOMAIN rows
    THEN [rows EXCEPT ![id].pure_points = @ + pureDelta, ![id].evil_points = @ + evilDelta]
    ELSE rows

Dirty(p) == players[p].PureDelta # 0 \/ players[p].EvilDelta # 0

\* mutant: the deltas are reset whether or not AddPlayerPoints failed
syncPlayersToDatabaseAlwaysResets(synced) ==
    /\ server.phase # "exited"
    /\ now >= SyncInterval
    /\ synced \subseteq {p \in DOMAIN players : Dirty(p)}
    /\ db' = [id \in DOMAIN db |->
                IF id \in synced
                THEN AddPlayerPoints(db, id, players[id].PureDelta, players[id].EvilDelta)[id]
                ELSE db[id]]
    /\ players' = [p \in DOMAIN players |->
                     [players[p] EXCEPT !.PureDelta = 0, !.EvilDelta = 0]]
    /\ UNCHANGED <<now, clock, req, dnsRequests, pendingActions, actionChan,
                   dnsRequestChan, admit, fetch, submit, creating>>
    /\ UNCHANGED <<server, plugin>>
    /\ UNCHANGED <<register, jobQueue>>

\* lines 512-526: one tick of the ticker, the whole pass under playersMu.RLock;
\* synced are the players whose AddPlayerPoints returned no error
syncPlayersToDatabase(synced) ==
    /\ server.phase # "exited"
    /\ now >= SyncInterval
    /\ synced \subseteq {p \in DOMAIN players : Dirty(p)}
    /\ db' = [id \in DOMAIN db |->
                IF id \in synced
                THEN AddPlayerPoints(db, id, players[id].PureDelta, players[id].EvilDelta)[id]
                ELSE db[id]]
    /\ players' = [p \in DOMAIN players |->
                     IF p \in synced
                     THEN [players[p] EXCEPT !.PureDelta = 0, !.EvilDelta = 0]
                     ELSE players[p]]
    /\ UNCHANGED <<now, clock, req, dnsRequests, pendingActions, actionChan,
                   dnsRequestChan, admit, fetch, submit, creating>>
    /\ UNCHANGED <<server, plugin>>
    /\ UNCHANGED <<register, jobQueue>>

\* the coordinator with its persistence loop
PersistNext ==
    \/ Next
    \/ \E p \in PlayerIds, ok \in BOOLEAN : CreatePlayer(p, ok)
    \/ \E synced \in SUBSET PlayerIds : syncPlayersToDatabase(synced)

PersistSpec == Init /\ [][PersistNext]_vars

\* ---- claims C11..C20 ----
TimedOut(r) == admit[r].woke = "timeout"

\* C11: once the admission of a request has timed out and answered "correct",
\* no /submitaction call that starts afterwards for that request returns 200
\* (a call that returns 200 has scored its player), whoever the player is and
\* whether or not the admission's cleanup has run.
C11_NoSubmitAfterTimeout ==
    \A r \in Requests : \A s \in SubmitCalls :
        [](TimedOut(r) /\ submit[s].pc = "idle"
             => [](~(Returned200(s) /\ submit[s].requestID = req[r].RequestID)))

Returned400(s) == submit[s].pc = "done" /\ submit[s].status = 400

\* C12: a /submitaction call ends with 200 or 400, and no step of a call up to
\* and including its rejection with 400 (unknown player, stale assignment,
\* request absent or not Assigned, invalid action) changes any player's points,
\* deltas or assignment, or any action channel or its registration.
C12_RejectedSubmitChangesNothing ==
    /\ [](\A s \in SubmitCalls : submit[s].pc = "done" => submit[s].status \in {200, 400})
    /\ [][\A s \in SubmitCalls :
            /\ submit[s].pc \in {"idle", "validate", "score"}
            /\ submit'[s] # submit[s]
            /\ submit'[s].pc \in {"validate", "score"} \/ submit'[s] = SubmitDone(400)
            => /\ players' = players
               /\ actionChan' = actionChan
               /\ pendingActions' = pendingActions]_vars
C12_Witness ==
    \E s \in SubmitCalls :
        /\ Returned400(s)
        /\ \E p \in DOMAIN players : PresentAndAssigned(players[p].AssignedRequestID)

Rejected(r) == admit[r].pc = "done" /\ admit[r].status = 503
InQueue(r) == \E i \in 1..Len(dnsRequestChan) : dnsRequestChan[i] = r
OtherEntries(m, id) == [x \in (DOMAIN m) \ {id} |-> m[x]]

HasSlot(r) == req[r].RequestID \in DOMAIN pendingActions
Present(r) == req[r].RequestID \in DOMAIN dnsRequests

\* C14: for every request whose /dnsrequest handler is waiting for its action
\* or has returned (so is not between two of its own map operations), an
\* action channel is registered in pendingActions for the request if and only
\* if the request is in dnsRequests and not yet answered.
C14_SlotIffPresentUnresolved ==
    \A r \in Requests :
        admit[r].pc \in {"waiting", "done"} =>
            (HasSlot(r) <=> (Present(r) /\ ~Answered(r)))

Written(r) == Len(actionChan[r]) + (IF admit[r].woke = "player" THEN 1 ELSE 0)

\* C15: over the life of a request at most one action is ever sent into its
\* action channel: the actions received by its /dnsrequest handler and the
\* actions still in the channel's buffer are at most one in all.  (The handler
\* is the channel's only reader and receives at most once.)
C15_SlotWrittenOnce ==
    \A r \in Requests : Written(r) <= 1

\* C16: a /submitaction call that has reached its channel send is never left
\* with a full buffer and no receiver: while the buffer is full the request's
\* /dnsrequest handler is still waiting in its select and will empty it.
C16_SendNeverParks ==
    \A s \in DOMAIN submit :
        submit[s].pc = "send" /\ Len(actionChan[submit[s].chan]) >= ActionChanSize
            => admit[submit[s].chan].pc = "waiting"

CleanedUp(r) == admit[r].pc = "done" /\ admit[r].status = 200

\* C17: once a /dnsrequest call has answered (with a player's action or with
\* the default) and run its cleanup, its request is in none of dnsRequests,
\* dnsRequestChan and pendingActions, and no player's AssignedRequestID is its id.
C17_NothingLeftAfterCleanup ==
    \A r \in Requests :
        CleanedUp(r) =>
            /\ ~Present(r)
            /\ ~HasSlot(r)
            /\ ~InQueue(r)
            /\ \A p \in DOMAIN players : players[p].AssignedRequestID # req[r].RequestID

NeverScored(p) == \A s \in SubmitCalls : submit[s].player # p

\* C18: a player was assigned a request by an earlier /assign call, has never
\* had a /submitaction call accepted, and a later /assign call of theirs has
\* found the assignment gone (the request was removed from dnsRequests) and
\* cleared it.  What that call then receives from dnsRequestChan is a different
\* request, and one that is eligible: unassigned, its admission still waiting.
C18_NextFetchAfterReclaim ==
    [][\A h, g \in FetchCalls :
         /\ g < h
         /\ fetch[g].pc = "done" /\ fetch[g].fresh
         /\ fetch[h].pc = "dequeue" /\ fetch'[h].pc = "assign"
         /\ fetch[h].player = fetch[g].player
         /\ players[fetch[h].player].AssignedRequestID = NoId
         /\ NeverScored(fetch[h].player)
         => /\ fetch'[h].req # fetch[g].req
            /\ Eligible(fetch'[h].req)]_vars

\* C19: a pass of cleanupExpiredRequests leaves no trace of a request it
\* removes from dnsRequests: after the pass the request is not in
\* dnsRequestChan and no player's AssignedRequestID is its id.  (Only the
\* sweeper changes dnsRequests without a step of a /dnsrequest handler.)
C19_SweepRemovesEverywhere ==
    [][admit' = admit =>
         \A r \in Requests :
            Present(r) /\ ~Present(r)' =>
                /\ ~InQueue(r)'
                /\ \A p \in DOMAIN players : players'[p].AssignedRequestID # req[r].RequestID]_vars

Durable(p) == IF p \in DOMAIN db THEN db[p] ELSE NewRow

\* C20: for every registered player both deltas are >= 0, and the points in
\* memory are the points of the player's row in the players table (zero while
\* there is no row) plus the delta not yet flushed, pure and evil alike.
C20_TotalIsDurablePlusDelta ==
    \A p \in DOMAIN players :
        /\ players[p].PureDelta >= 0
        /\ players[p].EvilDelta >= 0
        /\ players[p].PurePoints = Durable(p).pure_points + players[p].PureDelta
        /\ players[p].EvilPoints = Durable(p).evil_points + players[p].EvilDelta

\* ---- persistence with two scoring calls ----
\* Two /submitaction calls, each sent by a player for the request they hold:
\* player 1 always answers "correct", the others "corrupt".  The INSERT of
\* db.CreatePlayer succeeds, sooner or later.
FlushAction(p) == IF p = 1 THEN "correct" ELSE "corrupt"

\* a /submitaction call of a registered player for the request they hold
SubmitAssigned(s, p) ==
    /\ p \in DOMAIN players
    /\ players[p].AssignedRequestID # NoId
    /\ SubmitValidatePlayer(s, p, players[p].AssignedRequestID, FlushAction(p))

FlushNext ==
    \/ Tick
    \/ \E p \in PlayerIds : Register(p)
    \/ \E r \in Requests : AdmitInsert(r, 1)
    \/ \E r \in Requests : AdmitStore(r)
    \/ \E r \in Requests : AdmitEnqueue(r)
    \/ \E r \in Requests : AdmitReject(r)
    \/ \E r \in Requests : AdmitBackoutDelete(r)
    \/ \E r \in Requests : AdmitBackoutSlot(r)
    \/ \E r \in Requests : AdmitReceive(r)
    \/ \E r \in Requests : AdmitTimeout(r)
    \/ \E r \in Requests : AdmitCleanupDelete(r)
    \/ \E r \in Requests : AdmitCleanupSlot(r)
    \/ \E h \in FetchCalls, p \in PlayerIds : FetchCheck(h, p)
    \/ \E h \in FetchCalls : FetchDequeue(h)
    \/ \E h \in FetchCalls : FetchNone(h)
    \/ \E h \in FetchCalls : FetchAssign(h)
    \/ \E s \in RaceSubmitCalls, p \in PlayerIds : SubmitAssigned(s, p)
    \/ \E s \in RaceSubmitCalls : SubmitValidateRequest(s)
    \/ \E s \in RaceSubmitCalls : SubmitScore(s)
    \/ \E s \in RaceSubmitCalls : SubmitLoad(s)
    \/ \E s \in RaceSubmitCalls : SubmitSend(s)
    \/ \E p \in PlayerIds : CreatePlayer(p, TRUE)
    \/ \E synced \in SUBSET PlayerIds : syncPlayersToDatabase(synced)

FlushSpec == RaceInit /\ [][FlushNext]_vars

\* ---- claims C21..C30 ----
\* a pass of syncPlayersToDatabase took the flush of p for successful: p had a
\* delta and both deltas are reset (no other step lowers a delta)
FlushedOk(p) ==
    /\ Dirty(p)
    /\ players'[p].PureDelta = 0
    /\ players'[p].EvilDelta = 0

\* C21: after a flush that succeeded for a player with deltas (dp, de), the
\* pure_points of the player's row are at least their value before the flush
\* plus dp, the evil_points at least theirs plus de (a missing row counts as
\* zero points), and both in-memory deltas are 0.
C21_FlushAddsDeltas ==
    [][\A p \in DOMAIN players :
         FlushedOk(p) =>
            /\ Durable(p)'.pure_points >= Durable(p).pure_points + players[p].PureDelta
            /\ Durable(p)'.evil_points >= Durable(p).evil_points + players[p].EvilDelta]_vars

Row(p) == IF p \in DOMAIN db THEN db[p] ELSE NewRow

\* C22: in a pass of syncPlayersToDatabase the players whose AddPlayerPoints
\* failed (and those with nothing to flush) keep their deltas, points and row
\* as they were, while every other player with a delta is flushed in the same
\* pass, the whole current delta being added to an existing row; the pass
\* changes nothing the handlers wait on; and apart from a successful flush no
\* step ever lowers a delta, so a delta that failed is still there, with the
\* points earned since, at the next pass.
C22_FailedFlushKeepsDeltas ==
    /\ [][\A synced \in SUBSET PlayerIds :
            syncPlayersToDatabase(synced) =>
               /\ \A p \in (DOMAIN players) \ synced :
                    players'[p] = players[p] /\ Row(p)' = Row(p)
               /\ \A p \in synced :
                    /\ FlushedOk(p)
                    /\ p \in DOMAIN db =>
                         /\ db'[p].pure_points = db[p].pure_points + players[p].PureDelta
                         /\ db'[p].evil_points = db[p].evil_points + players[p].EvilDelta
               /\ UNCHANGED <<dnsRequests, pendingActions, actionChan, dnsRequestChan,
                              req, admit, fetch, submit>>]_vars
    /\ [][\A p \in DOMAIN players :
            \/ FlushedOk(p)
            \/ /\ players'[p].PureDelta >= players[p].PureDelta
               /\ players'[p].EvilDelta >= players[p].EvilDelta]_vars
\* one player has been flushed while another, whose row exists, still has its
\* delta after the first tick: its flush is still to be made
C22_Witness ==
    /\ now >= SyncInterval
    /\ \E p, q \in DOMAIN players :
         /\ p # q
         /\ q \in DOMAIN db /\ ~Dirty(q) /\ db[q].pure_points + db[q].evil_points > 0
         /\ p \in DOMAIN db /\ Dirty(p) /\ db[p].pure_points + db[p].evil_points = 0

\* ---- main: shutdown and restart ----
ShutdownTimeout == 30
Exited == [phase |-> "exited", deadline |-> 0, closed |-> FALSE]
\* the process has ended after close(dnsRequestChan)
ExitedClosed == [phase |-> "exited", deadline |-> 0, closed |-> TRUE]

\* lines 613-618: a signal arrives; main makes a context that ends after 30 s
\* and calls server.Shutdown, which closes the listeners: no handler starts
Signal ==
    /\ server.phase = "running"
    /\ server' = [phase |-> "draining", deadline |-> now + ShutdownTimeout, closed |-> FALSE]
    /\ UNCHANGED <<now, clock, req, dnsRequests, pendingActions, actionChan,
                   dnsRequestChan, players, admit, fetch, submit, db, creating>>
    /\ UNCHANGED plugin
    /\ UNCHANGED <<register, jobQueue>>

\* a Shutdown that returns without waiting for the active connections
ShutdownDoneAtOnce ==
    /\ server.phase = "draining"
    /\ server' = ExitedClosed
    /\ creating' = {}
    /\ UNCHANGED <<now, clock, req, dnsRequests, pendingActions, actionChan,
                   dnsRequestChan, players, admit, fetch, submit, db>>
    /\ UNCHANGED plugin
    /\ UNCHANGED <<register, jobQueue>>

\* lines 620-624: Shutdown returns nil once no connection is active; main
\* closes dnsRequestChan and returns, which ends every goroutine.  The memory
\* of the process is left as it was at that moment.
ShutdownDone ==
    /\ server.phase = "draining"
    /\ ~ActiveConns
    /\ server' = ExitedClosed
    /\ creating' = {}
    /\ UNCHANGED <<now, clock, req, dnsRequests, pendingActions, actionChan,
                   dnsRequestChan, players, admit, fetch, submit, db>>
    /\ UNCHANGED plugin
    /\ UNCHANGED <<register, jobQueue>>

\* what is left of a handler when the process exits under it
Abort(h) == IF InProgress(h.pc) THEN [h EXCEPT !.pc = "aborted"] ELSE h

\* lines 620-622: the context ends first, Shutdown returns its error and
\* log.Fatalf exits the process with the handlers still running
ShutdownExpire ==
    /\ server.phase = "draining"
    /\ now >= server.deadline
    /\ server' = Exited
    /\ creating' = {}
    /\ admit' = [r \in Requests |-> Abort(admit[r])]
    /\ fetch' = [h \in FetchCalls |-> Abort(fetch[h])]
    /\ submit' = [s \in DOMAIN submit |-> Abort(submit[s])]
    /\ UNCHANGED <<now, clock, req, dnsRequests, pendingActions, actionChan,
                   dnsRequestChan, players, db>>
    /\ UNCHANGED plugin
    /\ UNCHANGED <<register, jobQueue>>

\* lines 553-566: one in-memory player per row that db.GetLeaderboard returns,
\* with the row's points; the other fields of Player keep their zero values
LoadPlayers(rows) ==
    [p \in DOMAIN rows |-> [PurePoints |-> rows[p].pure_points,
                            EvilPoints |-> rows[p].evil_points,
                            PureDelta |-> 0, EvilDelta |-> 0,
                            AssignedRequestID |-> NoId]]

\* lines 538-572 in a new process: the maps and the queue are empty; when
\* GetLeaderboard fails a warning is logged and the table stays empty
Startup(loaded) ==
    /\ server.phase = "exited"
    /\ server' = Running
    /\ players' = IF loaded THEN LoadPlayers(db) ELSE EmptyMap
    /\ dnsRequests' = EmptyMap
    /\ pendingActions' = EmptyMap
    /\ actionChan' = [r \in Requests |-> <<>>]
    /\ dnsRequestChan' = <<>>
    /\ creating' = {}
    /\ UNCHANGED <<now, clock, req, admit, fetch, submit, db>>
    /\ UNCHANGED plugin
    /\ UNCHANGED <<register, jobQueue>>

\* the coordinator with its table, stopped and started again
LifeNext ==
    \/ \E p \in PlayerIds : Register(p)
    \/ \E r \in Requests : AdmitInsert(r, 1)
    \/ \E r \in Requests : AdmitStore(r)
    \/ \E r \in Requests : AdmitEnqueue(r)
    \/ \E r \in Requests : AdmitReject(r)
    \/ \E r \in Requests : AdmitBackoutDelete(r)
    \/ \E r \in Requests : AdmitBackoutSlot(r)
    \/ \E r \in Requests : AdmitReceive(r)
    \/ \E r \in Requests : AdmitTimeout(r)
    \/ \E r \in Requests : AdmitCleanupDelete(r)
    \/ \E r \in Requests : AdmitCleanupSlot(r)
    \/ \E h \in FetchCalls, p \in PlayerIds : FetchCheck(h, p)
    \/ \E h \in FetchCalls : FetchDequeue(h)
    \/ \E h \in FetchCalls : FetchNone(h)
    \/ \E h \in FetchCalls : FetchAssign(h)
    \/ \E s \in SubmitCalls, p \in PlayerIds : SubmitAssigned(s, p)
    \/ \E s \in SubmitCalls : SubmitValidateRequest(s)
    \/ \E s \in SubmitCalls : SubmitScore(s)
    \/ \E s \in SubmitCalls : SubmitLoad(s)
    \/ \E s \in SubmitCalls : SubmitSend(s)
    \/ Tick
    \/ \E p \in PlayerIds, ok \in BOOLEAN : CreatePlayer(p, ok)
    \/ \E synced \in SUBSET PlayerIds : syncPlayersToDatabase(synced)
    \/ Signal
    \/ ShutdownDone
    \/ ShutdownExpire
    \/ \E loaded \in BOOLEAN : Startup(loaded)
LifeSpec == Init /\ [][LifeNext]_vars

\* C23: after a restart whose load succeeds, the in-memory table holds
\* exactly the players of the durable store, each with its durable points,
\* zero deltas and no assignment, and a player all of whose points had been
\* flushed before the restart is shown with those points again
Flushed(p) == ~Dirty(p) /\ players[p].PurePoints + players[p].EvilPoints > 0
C23_RestartShowsFlushedPoints ==
    [][Startup(TRUE) =>
         /\ DOMAIN players' = DOMAIN db
         /\ \A p \in DOMAIN db :
                /\ players'[p].PurePoints = db[p].pure_points
                /\ players'[p].EvilPoints = db[p].evil_points
                /\ ~Dirty(p)'
                /\ players'[p].AssignedRequestID = NoId
         /\ \A p \in DOMAIN players : Flushed(p) =>
                /\ p \in DOMAIN players'
                /\ players'[p].PurePoints = players[p].PurePoints
                /\ players'[p].EvilPoints = players[p].EvilPoints]_vars

\* C24: when the coordinator exits after a shutdown, no admission has been
\* cut off or left waiting: every admission that had started has returned
C24_NoAdmissionCutOff ==
    server.phase = "exited" =>
        \A r \in Requests : admit[r].pc \in {"idle", "done"}

\* C25: when the coordinator has exited after a shutdown, no player is left
\* with a delta that was not flushed to the store
C25_NoUnflushedDeltaAtExit ==
    server.phase = "exited" => \A p \in DOMAIN players : ~Dirty(p)

\* ---- the CoreDNS plugin (dnsrp.go) ----
DelaySeconds == 5
QTypes == {"A", "AAAA"}
QName(q) == IF q = 1 THEN "one.example." ELSE "two.example."

\* what d.Client.Post and the reading of the body can give: Post fails (a
\* transport error, or the 35 s Client.Timeout), or a response arrives whose
\* body is a JSON object (action "" when the field is absent), the text of
\* http.Error, or a body whose reading runs into Client.Timeout
Bodies ==
    [kind : {"object"}, action : Actions \cup {""}]
        \cup {[kind |-> "text", action |-> ""], [kind |-> "stalled", action |-> ""]}
PostOutcomes ==
    [kind : {"error"}, timeout : BOOLEAN, status : {0}, body : {[kind |-> "text", action |-> ""]}]
        \cup [kind : {"response"}, timeout : {FALSE}, status : {200, 503}, body : Bodies]

\* GetActionFromGameServer: the status code is not looked at; the action
\* comes from decoding the body, and every failure is returned as the error
GetActionFromGameServer(out) ==
    IF out.kind = "error"
    THEN [action |-> "", err |-> IF out.timeout THEN "timeout" ELSE "other"]
    ELSE IF out.body.kind = "object" THEN [action |-> out.body.action, err |-> "nil"]
    ELSE IF out.body.kind = "stalled" THEN [action |-> "", err |-> "timeout"]
    ELSE [action |-> "", err |-> "other"]

\* results of the next plugin; "none" when d.Next is nil
NextResults == {"none", "NOERROR", "SERVFAIL"}
\* plugin.NextOrFailure: the result of next.ServeDNS, or ServerFailure and an
\* error when there is no next plugin
NextOrFailure(nxt) ==
    IF nxt = "none" THEN [rcode |-> "SERVFAIL", failed |-> TRUE]
    ELSE [rcode |-> nxt, failed |-> nxt = "SERVFAIL"]

\* msg.SetReply(r): a response with the question of r and no answers
SetReply(question) ==
    [Response |-> TRUE, Rcode |-> "NOERROR", Question |-> <<question>>, Answer |-> <<>>]
\* fmt.Sprintf("%s A 127.0.0.1", name), as the fields dns.NewRR reads
RRText(name) == <<name, "A", "127.0.0.1">>
\* dns.NewRR of such a line: owner, type and address; class IN by default
NewRR(text) == [Name |-> text[1], Class |-> "IN", Rrtype |-> text[2], A |-> text[3]]

\* lines 43-51 and 109: ServeDNS takes the question and posts it
ServeDNSPost(q, qtype) ==
    /\ plugin[q].pc = "idle"
    /\ \A o \in Queries : o < q => plugin[o].pc # "idle"
    /\ plugin' = [plugin EXCEPT ![q].pc = "posted", ![q].posted = now,
                                ![q].question = [Name |-> QName(q), Qtype |-> qtype, Qclass |-> "IN"]]
    /\ UNCHANGED <<now, clock, req, dnsRequests, pendingActions, actionChan,
                   dnsRequestChan, players, admit, fetch, submit, db, creating, server>>
    /\ UNCHANGED <<register, jobQueue>>

\* a reply that fails the transaction where the coordinator failed
ServeDNSFailsOnError(q, out, nxt) ==
    /\ plugin[q].pc = "posted"
    /\ LET got == GetActionFromGameServer(out) IN
       plugin' = [plugin EXCEPT ![q].pc = "done", ![q].action = got.action, ![q].err = got.err,
                                ![q].result = [rcode |-> "SERVFAIL", failed |-> got.err # "nil"]]
    /\ UNCHANGED <<now, clock, req, dnsRequests, pendingActions, actionChan,
                   dnsRequestChan, players, admit, fetch, submit, db, creating, server>>
    /\ UNCHANGED <<register, jobQueue>>

\* lines 54-96: from the return of GetActionFromGameServer to the return of
\* ServeDNS, or to the sleep of `delay'; nxt is what the next plugin answers
ServeDNSAct(q, out, nxt) ==
    /\ plugin[q].pc = "posted"
    /\ LET got == GetActionFromGameServer(out)
           action == IF got.err = "timeout" THEN "correct" ELSE got.action
           msg == SetReply(plugin[q].question)
           delegate == [plugin EXCEPT ![q].pc = "done", ![q].action = action, ![q].err = got.err,
                                      ![q].called = TRUE, ![q].result = NextOrFailure(nxt)]
           reply(m) == [plugin EXCEPT ![q].pc = "done", ![q].action = action, ![q].err = got.err,
                                      ![q].wrote = m,
                                      ![q].result = [rcode |-> "NOERROR", failed |-> FALSE]]
       IN  plugin' =
             IF got.err = "other" THEN delegate
             ELSE IF action = "correct" THEN delegate
             ELSE IF action = "corrupt"
                  THEN reply([msg EXCEPT !.Answer = <<NewRR(RRText(plugin[q].question.Name))>>])
             ELSE IF action = "delay"
                  THEN [plugin EXCEPT ![q].pc = "sleeping", ![q].action = action, ![q].err = got.err]
             ELSE IF action = "nxdomain" THEN reply([msg EXCEPT !.Rcode = "NXDOMAIN"])
             ELSE delegate
    /\ UNCHANGED <<now, clock, req, dnsRequests, pendingActions, actionChan,
                   dnsRequestChan, players, admit, fetch, submit, db, creating, server>>
    /\ UNCHANGED <<register, jobQueue>>

\* the action `delay' without its wait
ServeDNSWakeAtOnce(q, nxt) ==
    /\ plugin[q].pc = "sleeping"
    /\ plugin' = [plugin EXCEPT ![q].pc = "done", ![q].called = TRUE,
                                ![q].result = NextOrFailure(nxt)]
    /\ UNCHANGED <<now, clock, req, dnsRequests, pendingActions, actionChan,
                   dnsRequestChan, players, admit, fetch, submit, db, creating, server>>
    /\ UNCHANGED <<register, jobQueue>>

\* lines 84-86: time.Sleep(5 * time.Second) is over; delegate
ServeDNSWake(q, nxt) ==
    /\ plugin[q].pc = "sleeping"
    /\ plugin' = [plugin EXCEPT ![q].pc = "done", ![q].slept = DelaySeconds,
                                ![q].called = TRUE, ![q].result = NextOrFailure(nxt)]
    /\ UNCHANGED <<now, clock, req, dnsRequests, pendingActions, actionChan,
                   dnsRequestChan, players, admit, fetch, submit, db, creating, server>>
    /\ UNCHANGED <<register, jobQueue>>

PluginNext ==
    \/ \E q \in Queries, qtype \in QTypes : ServeDNSPost(q, qtype)
    \/ \E q \in Queries, out \in PostOutcomes, nxt \in NextResults : ServeDNSAct(q, out, nxt)
    \/ \E q \in Queries, nxt \in NextResults : ServeDNSWake(q, nxt)
PluginSpec == Init /\ [][PluginNext]_vars

\* C26: whatever the /dnsrequest call gives, a finished ServeDNS has either
\* written a reply and returned success or handed the query to the next
\* stage, never both and never neither; after a timeout the action is
\* `correct' (the next stage), and after any other error the query goes
\* to the next stage at once
Replied(q) == plugin[q].wrote # NoMsg
Delegated(q) == plugin[q].called /\ \E nxt \in NextResults : plugin[q].result = NextOrFailure(nxt)
C26_PluginNeverFails ==
    \A q \in Queries : plugin[q].pc = "done" =>
        /\ Replied(q) # Delegated(q)
        /\ Replied(q) => ~plugin[q].called /\ plugin[q].result = [rcode |-> "NOERROR", failed |-> FALSE]
        /\ plugin[q].err = "timeout" => plugin[q].action = "correct" /\ Delegated(q)
        /\ plugin[q].err = "other" => Delegated(q) /\ plugin[q].slept = 0
C26_Witness ==
    \E q, o \in Queries :
        /\ plugin[q].pc = "done" /\ plugin[q].err = "other" /\ Delegated(q)
        /\ plugin[o].pc = "done" /\ plugin[o].err = "timeout" /\ Delegated(o)

\* C27: a finished ServeDNS that received an action did what that action
\* says: `correct' went to the next stage without waiting, `delay' went to
\* the next stage after 5 s, `corrupt' wrote a reply with the question and one
\* A record name -> 127.0.0.1 and returned success, `nxdomain' wrote a reply
\* with NameError and no answer and returned success
C27_ActionBehaviour ==
    \A q \in Queries :
        /\ plugin[q].pc = "sleeping" => ~plugin[q].called /\ ~Replied(q) /\ plugin[q].action = "delay"
        /\ plugin[q].pc = "done" /\ plugin[q].err = "nil" =>
            /\ plugin[q].action = "correct" =>
                   Delegated(q) /\ ~Replied(q) /\ plugin[q].slept = 0
            /\ plugin[q].action = "delay" =>
                   Delegated(q) /\ ~Replied(q) /\ plugin[q].slept = DelaySeconds
            /\ plugin[q].action = "corrupt" =>
                   /\ ~plugin[q].called /\ plugin[q].slept = 0
                   /\ plugin[q].wrote =
                          [Response |-> TRUE, Rcode |-> "NOERROR",
                           Question |-> <<plugin[q].question>>,
                           Answer |-> <<[Name |-> plugin[q].question.Name, Class |-> "IN",
                                         Rrtype |-> "A", A |-> "127.0.0.1"]>>]
                   /\ plugin[q].result = [rcode |-> "NOERROR", failed |-> FALSE]
            /\ plugin[q].action = "nxdomain" =>
                   /\ ~plugin[q].called /\ plugin[q].slept = 0
                   /\ plugin[q].wrote =
                          [Response |-> TRUE, Rcode |-> "NXDOMAIN",
                           Question |-> <<plugin[q].question>>, Answer |-> <<>>]
                   /\ plugin[q].result = [rcode |-> "NOERROR", failed |-> FALSE]
C27_Witness ==
    \E q, o \in Queries :
        /\ plugin[q].pc = "done" /\ plugin[q].action = "corrupt" /\ Replied(q)
        /\ plugin[o].pc = "done" /\ plugin[o].action = "delay" /\ plugin[o].err = "nil"

\* ---- request ids when the clock need not advance ----
\* time.Now().UnixNano() read by two /dnsrequest calls: the second reading is
\* later (adv = 1) or, with calls in the same tick of the clock, equal (adv = 0)
AdmitInsertAt(r, adv) ==
    /\ generateRequestID(adv) # NoId
    /\ AdmitInsert(r, adv)

IdNext ==
    \/ Tick
    \/ \E p \in PlayerIds : Register(p)
    \/ \E r \in Requests, adv \in {0, 1} : AdmitInsertAt(r, adv)
    \/ \E r \in Requests : AdmitStore(r)
    \/ \E r \in Requests : AdmitEnqueue(r)
    \/ \E r \in Requests : AdmitReject(r)
    \/ \E r \in Requests : AdmitBackoutDelete(r)
    \/ \E r \in Requests : AdmitBackoutSlot(r)
    \/ \E r \in Requests : AdmitReceive(r)
    \/ \E r \in Requests : AdmitTimeout(r)
    \/ \E r \in Requests : AdmitCleanupDelete(r)
    \/ \E r \in Requests : AdmitCleanupSlot(r)
    \/ \E h \in FetchCalls, p \in {NoId} \cup PlayerIds : FetchCheck(h, p)
    \/ \E h \in FetchCalls : FetchDequeue(h)
    \/ \E h \in FetchCalls : FetchNone(h)
    \/ \E h \in FetchCalls : FetchAssign(h)
    \/ \E s \in SubmitCalls, p \in PlayerIds, id \in {NoId} \cup Requests, act \in Actions :
           SubmitValidatePlayer(s, p, id, act)
    \/ \E s \in SubmitCalls : SubmitValidateRequest(s)
    \/ \E s \in SubmitCalls : SubmitScore(s)
    \/ \E s \in SubmitCalls : SubmitLoad(s)
    \/ \E s \in SubmitCalls : SubmitSend(s)
IdSpec == Init /\ [][IdNext]_vars

\* C28: no two admissions are ever given the same request id (so that none
\* replaces another request's entry of dnsRequests or of pendingActions)
Admitted(r) == admit[r].pc # "idle"
C28_RequestIdsUnique ==
    \A r, o \in Requests :
        Admitted(r) /\ Admitted(o) /\ r # o => req[r].RequestID # req[o].RequestID

\* ---- the two mutexes, with the first critical section of /assign in steps ----
\* FetchCheck is the section of lines 279-303 as one step; here the part of it
\* that runs for a player who holds an assignment is taken lock by lock
HoldsAssignment(p) == p \in DOMAIN players /\ players[p].AssignedRequestID # NoId

\* a handler between playersMu.Lock() (279) and playersMu.Unlock() (296, 303)
PlayersMuHeldBy(h) == fetch[h].pc \in {"locked", "reading"}
\* a handler between dnsRequestsMu.RLock() (289) and RUnlock() (291)
DnsRequestsMuHeldBy(h) == fetch[h].pc = "reading"
\* a /dnsrequest handler between dnsRequestsMu.Lock() (220) and Unlock() (222)
DnsRequestsMuLockedBy(r) == admit[r].pc = "inserting"
PlayersMuFree == \A h \in FetchCalls : ~PlayersMuHeldBy(h)
\* no writer holds dnsRequestsMu: RLock() can proceed
DnsRequestsMuUnlocked == \A r \in Requests : ~DnsRequestsMuLockedBy(r)
\* neither a reader nor a writer holds it: Lock() can proceed
DnsRequestsMuFree ==
    /\ DnsRequestsMuUnlocked
    /\ \A h \in FetchCalls : ~DnsRequestsMuHeldBy(h)

\* lines 273-287: playersMu.Lock(), the player exists and has an assignment
FetchEnter(h, p) ==
    /\ server.phase = "running"
    /\ fetch[h].pc = "idle"
    /\ \A g \in FetchCalls : g < h => fetch[g].pc # "idle"
    /\ HoldsAssignment(p)
    /\ fetch' = [fetch EXCEPT ![h].pc = "locked", ![h].player = p]
    /\ UNCHANGED <<now, clock, req, dnsRequests, pendingActions, actionChan,
                   dnsRequestChan, players, admit, submit, db, creating, server, plugin>>
    /\ UNCHANGED <<register, jobQueue>>

\* the other paths of the section take playersMu alone
FetchCheckUnassigned(h, p) ==
    /\ ~HoldsAssignment(p)
    /\ FetchCheck(h, p)

\* line 289: dnsRequestsMu.RLock()
FetchRLock(h) ==
    /\ fetch[h].pc = "locked"
    /\ DnsRequestsMuUnlocked
    /\ fetch' = [fetch EXCEPT ![h].pc = "reading"]
    /\ UNCHANGED <<now, clock, req, dnsRequests, pendingActions, actionChan,
                   dnsRequestChan, players, admit, submit, db, creating, server, plugin>>
    /\ UNCHANGED <<register, jobQueue>>

\* lines 290-303: the lookup, RUnlock, and the rest of the section
FetchLookup(h) ==
    /\ fetch[h].pc = "reading"
    /\ LET p == fetch[h].player IN
       IF StillAssigned(players[p].AssignedRequestID)
       THEN /\ fetch' = [fetch EXCEPT ![h] = [pc |-> "done", player |-> p,
                              req |-> dnsRequests[players[p].AssignedRequestID],
                              status |-> 200, fresh |-> FALSE]]
            /\ UNCHANGED players
       ELSE /\ players' = [players EXCEPT ![p].AssignedRequestID = NoId]
            /\ fetch' = [fetch EXCEPT ![h].pc = "dequeue"]
    /\ UNCHANGED <<now, clock, req, dnsRequests, pendingActions, actionChan,
                   dnsRequestChan, admit, submit, db, creating, server, plugin>>
    /\ UNCHANGED <<register, jobQueue>>

\* a section that needs a mutex waits while another task holds it:
\* playersMu.Lock() or RLock() of lines 279, 311, 355-367, 385, 477
RegisterLocked(p) ==
    /\ PlayersMuFree
    /\ Register(p)
FetchEnterLocked(h, p) ==
    /\ PlayersMuFree
    /\ FetchEnter(h, p)
FetchCheckUnassignedLocked(h, p) ==
    /\ PlayersMuFree
    /\ FetchCheckUnassigned(h, p)
FetchAssignLocked(h) ==
    /\ PlayersMuFree
    /\ FetchAssign(h)
SubmitValidatePlayerLocked(s, p, id, act) ==
    /\ PlayersMuFree
    /\ SubmitValidatePlayer(s, p, id, act)
SubmitScoreLocked(s) ==
    /\ PlayersMuFree
    /\ SubmitScore(s)
\* dnsRequestsMu.RLock() of line 375
SubmitValidateRequestLocked(s) ==
    /\ DnsRequestsMuUnlocked
    /\ SubmitValidateRequest(s)

\* lines 202-220: the first section of /dnsrequest in two steps; the request
\* is made and dnsRequestsMu.Lock() is taken
AdmitLock(r) ==
    /\ server.phase = "running"
    /\ admit[r].pc = "idle"
    /\ \A q \in Requests : q < r => admit[q].pc # "idle"
    /\ now + RequestTimeout <= MaxTime
    /\ DnsRequestsMuFree
    /\ admit' = [admit EXCEPT ![r].pc = "inserting"]
    /\ UNCHANGED <<now, clock, req, dnsRequests, pendingActions, actionChan, dnsRequestChan,
                   players, fetch, submit, db, creating, server, plugin>>
    /\ UNCHANGED <<register, jobQueue>>

\* mutant: the section also takes playersMu, inside dnsRequestsMu
AdmitInsertUnlockUnderPlayersMu(r) ==
    /\ admit[r].pc = "inserting"
    /\ PlayersMuFree
    /\ LET id == generateRequestID(1) IN
        /\ clock' = id
        /\ req' = [req EXCEPT ![r] = [RequestID |-> id, Assigned |-> FALSE, Timestamp |-> now]]
        /\ dnsRequests' = MapPut(dnsRequests, id, r)
    /\ admit' = [admit EXCEPT ![r].pc = "inserted"]
    /\ UNCHANGED <<now, pendingActions, actionChan, dnsRequestChan, players, fetch, submit,
                   db, creating, server, plugin>>
    /\ UNCHANGED <<register, jobQueue>>

\* lines 221-222: the insertion and dnsRequestsMu.Unlock()
AdmitInsertUnlock(r) ==
    /\ admit[r].pc = "inserting"
    /\ LET id == generateRequestID(1) IN
        /\ clock' = id
        /\ req' = [req EXCEPT ![r] = [RequestID |-> id, Assigned |-> FALSE, Timestamp |-> now]]
        /\ dnsRequests' = MapPut(dnsRequests, id, r)
    /\ admit' = [admit EXCEPT ![r].pc = "inserted"]
    /\ UNCHANGED <<now, pendingActions, actionChan, dnsRequestChan, players, fetch, submit,
                   db, creating, server, plugin>>
    /\ UNCHANGED <<register, jobQueue>>

\* dnsRequestsMu.Lock() of lines 238, 265
AdmitBackoutDeleteLocked(r) ==
    /\ DnsRequestsMuFree
    /\ AdmitBackoutDelete(r)
AdmitCleanupDeleteLocked(r) ==
    /\ DnsRequestsMuFree
    /\ AdmitCleanupDelete(r)

LockNext ==
    \/ \E p \in PlayerIds : RegisterLocked(p)
    \/ \E h \in FetchCalls, p \in PlayerIds : FetchEnterLocked(h, p)
    \/ \E h \in FetchCalls, p \in {NoId} \cup PlayerIds : FetchCheckUnassignedLocked(h, p)
    \/ \E h \in FetchCalls : FetchAssignLocked(h)
    \/ \E s \in SubmitCalls, p \in PlayerIds, id \in {NoId} \cup Requests, act \in Actions :
           SubmitValidatePlayerLocked(s, p, id, act)
    \/ \E s \in SubmitCalls : SubmitScoreLocked(s)
    \/ \E r \in Requests : AdmitLock(r)
    \/ \E r \in Requests : AdmitInsertUnlock(r)
    \/ \E r \in Requests : AdmitBackoutDeleteLocked(r)
    \/ \E r \in Requests : AdmitCleanupDeleteLocked(r)
    \/ \E h \in FetchCalls : FetchRLock(h)
    \/ \E h \in FetchCalls : FetchLookup(h)
    \/ Tick
    \/ \E r \in Requests : AdmitStore(r)
    \/ \E r \in Requests : AdmitEnqueue(r)
    \/ \E r \in Requests : AdmitReject(r)
    \/ \E r \in Requests : AdmitBackoutSlot(r)
    \/ \E r \in Requests : AdmitReceive(r)
    \/ \E r \in Requests : AdmitTimeout(r)
    \/ \E r \in Requests : AdmitCleanupSlot(r)
    \/ \E h \in FetchCalls : FetchDequeue(h)
    \/ \E h \in FetchCalls : FetchNone(h)
    \/ \E s \in SubmitCalls : SubmitValidateRequestLocked(s)
    \/ \E s \in SubmitCalls : SubmitLoad(s)
    \/ \E s \in SubmitCalls : SubmitSend(s)
LockSpec == Init /\ [][LockNext]_vars

\* C29: no handler holds dnsRequestsMu and playersMu at the same time
C29_LocksNeverHeldTogether ==
    \A h \in FetchCalls : ~(PlayersMuHeldBy(h) /\ DnsRequestsMuHeldBy(h))

\* C30: an action that is in a request's action channel before the
\* request's 30 s deadline is one of the four valid actions; the clock does
\* not reach the deadline before the /dnsrequest handler takes its next step,
\* that step answers 200 with exactly that action, and the answer is not
\* changed afterwards
PlacedInTime(r) ==
    /\ admit[r].pc = "waiting"
    /\ actionChan[r] # <<>>
    /\ now < Deadline(r)
C30_PlacedActionIsReturned ==
    [][\A r \in Requests :
          /\ PlacedInTime(r) =>
                /\ Head(actionChan[r]) \in ValidActions
                /\ now' = now
                /\ admit'[r] # admit[r] =>
                       /\ admit'[r].status = 200
                       /\ admit'[r].action = Head(actionChan[r])
          /\ admit[r].pc \in {"responded", "cleanup"} =>
                /\ admit'[r].status = admit[r].status
                /\ admit'[r].action = admit[r].action]_vars
C30_Witness ==
    \E r \in Requests :
        /\ admit[r].pc = "done" /\ admit[r].woke = "player"
        /\ admit[r].status = 200 /\ admit[r].action \in EvilActions
        /\ now < Deadline(r)

\* ================= claims C31..C40 =================

\* ---- registerHandler with its request and response ----
Nicknames == {"", "ann", "bob"}
\* generatePlayerID: "player-%d" of a reading of the nanosecond clock that no
\* earlier registration has read; the ids are numbered in the order of issue
generatePlayerID == Cardinality(DOMAIN players) + 1

\* mutant: the nickname is not checked
registerHandlerAnyNickname(c, nickname) ==
    /\ server.phase = "running"
    /\ register[c].pc = "idle"
    /\ \A d \in RegisterCalls : d < c => register[d].pc # "idle"
    /\ LET playerID == generatePlayerID IN
        /\ playerID \in PlayerIds \ (DOMAIN players \cup DOMAIN db)
        /\ players' = MapPut(players, playerID, [Nickname |-> nickname] @@ NewPlayer)
        /\ creating' = creating \cup {playerID}
        /\ register' = [register EXCEPT ![c] = [pc |-> "done", nickname |-> nickname,
                                                status |-> 200, body |-> playerID]]
    /\ UNCHANGED <<now, clock, req, dnsRequests, pendingActions, actionChan, dnsRequestChan,
                   admit, fetch, submit, db, server, plugin, jobQueue>>

\* lines 459-491: an empty nickname is refused with 400; otherwise the player
\* is stored under a new id, the goroutine for db.CreatePlayer is started and
\* the id is written as the body of a 200 response
registerHandler(c, nickname) ==
    /\ server.phase = "running"
    /\ register[c].pc = "idle"
    /\ \A d \in RegisterCalls : d < c => register[d].pc # "idle"
    /\ IF nickname = ""
       THEN /\ register' = [register EXCEPT ![c] = [pc |-> "done", nickname |-> nickname,
                                                     status |-> 400, body |-> NoId]]
            /\ UNCHANGED <<players, creating>>
       ELSE LET playerID == generatePlayerID IN
            /\ playerID \in PlayerIds \ (DOMAIN players \cup DOMAIN db)
            /\ players' = MapPut(players, playerID, [Nickname |-> nickname] @@ NewPlayer)
            /\ creating' = creating \cup {playerID}
            /\ register' = [register EXCEPT ![c] = [pc |-> "done", nickname |-> nickname,
                                                    status |-> 200, body |-> playerID]]
    /\ UNCHANGED <<now, clock, req, dnsRequests, pendingActions, actionChan, dnsRequestChan,
                   admit, fetch, submit, db, server, plugin, jobQueue>>

RegisterNext ==
    \/ Tick
    \/ \E c \in RegisterCalls, nickname \in Nicknames : registerHandler(c, nickname)
    \/ \E r \in Requests : AdmitInsert(r, 1)
    \/ \E r \in Requests : AdmitStore(r)
    \/ \E r \in Requests : AdmitEnqueue(r)
    \/ \E r \in Requests : AdmitReject(r)
    \/ \E r \in Requests : AdmitBackoutDelete(r)
    \/ \E r \in Requests : AdmitBackoutSlot(r)
    \/ \E r \in Requests : AdmitReceive(r)
    \/ \E r \in Requests : AdmitTimeout(r)
    \/ \E r \in Requests : AdmitCleanupDelete(r)
    \/ \E r \in Requests : AdmitCleanupSlot(r)
    \/ \E h \in FetchCalls, p \in {NoId} \cup PlayerIds : FetchCheck(h, p)
    \/ \E h \in FetchCalls : FetchDequeue(h)
    \/ \E h \in FetchCalls : FetchNone(h)
    \/ \E h \in FetchCalls : FetchAssign(h)
    \/ \E s \in SubmitCalls, p \in PlayerIds : SubmitAssigned(s, p)
    \/ \E s \in SubmitCalls : SubmitValidateRequest(s)
    \/ \E s \in SubmitCalls : SubmitScore(s)
    \/ \E s \in SubmitCalls : SubmitLoad(s)
    \/ \E s \in SubmitCalls : SubmitSend(s)
RegisterSpec == Init /\ [][RegisterNext]_vars

LeaderboardEntry(p) ==
    [PlayerID |-> p, PurePoints |-> players[p].PurePoints, EvilPoints |-> players[p].EvilPoints,
     NetAlignment |-> players[p].PurePoints - players[p].EvilPoints]
\* lines 430-450: the bodies the handler can write.  The entries are appended
\* in the order of the map iteration and sorted by sort.Slice with
\* less(i, j) = NetAlignment[i] > NetAlignment[j]: any order of the players in
\* which no entry comes before one of greater NetAlignment
leaderboardHandler ==
    LET n == Cardinality(DOMAIN players)
        orders == {f \in [1..n -> DOMAIN players] : \A i, j \in 1..n : i # j => f[i] # f[j]}
        sorted(f) == \A i, j \in 1..n :
                        i < j => LeaderboardEntry(f[i]).NetAlignment >= LeaderboardEntry(f[j]).NetAlignment
    IN  {[i \in 1..n |-> LeaderboardEntry(f[i])] : f \in {g \in orders : sorted(g)}}

\* C32: every leaderboard the handler can return is in descending order of
\* pure_points + evil_points, and each row's net_alignment is
\* pure_points - evil_points
Total(e) == e.PurePoints + e.EvilPoints
C32_LeaderboardSortedByTotal ==
    \A board \in leaderboardHandler :
        /\ \A i, j \in DOMAIN board : i < j => Total(board[i]) >= Total(board[j])
        /\ \A i \in DOMAIN board : board[i].NetAlignment = board[i].PurePoints - board[i].EvilPoints

\* C33: a player has at most one point for each request that an /assign call
\* took from the queue for that player, and for each such assignment at most
\* one /submitaction call has succeeded
AssignmentsOf(p) == {h \in FetchCalls : Obtained(h) /\ fetch[h].player = p}
Succeeded(p) == {s \in DOMAIN submit : Returned200(s) /\ submit[s].player = p}
C33_OnePointPerAssignment ==
    \A p \in DOMAIN players :
        /\ players[p].PurePoints + players[p].EvilPoints <= Cardinality(AssignmentsOf(p))
        /\ Cardinality(Succeeded(p)) <= Cardinality(AssignmentsOf(p))

\* C34: a request that is marked Assigned, whose admission is still waiting
\* and for which no decision has been accepted, is the assignment of some
\* player
Decided(r) ==
    \E s \in DOMAIN submit :
        /\ submit[s].requestID = req[r].RequestID
        /\ submit[s].pc \in {"notify", "send"} \/ Returned200(s)
Held(r) == \E p \in DOMAIN players : players[p].AssignedRequestID = req[r].RequestID
C34_AssignedRequestIsHeld ==
    \A r \in Requests :
        (req[r].Assigned /\ admit[r].pc = "waiting" /\ ~Decided(r)) => Held(r)

Qualifies(o) ==
    /\ ~req[o].Assigned
    /\ admit[o].pc = "waiting"
    /\ (req[o].Timestamp + RequestTimeout) - now > 15
NoneQualifies == \A i \in DOMAIN dnsRequestChan : ~Qualifies(dnsRequestChan[i])
Scores == [p \in DOMAIN players |-> <<players[p].PurePoints, players[p].EvilPoints>>]
C36_NoneAvailableWithoutEffect ==
    [][\A h \in FetchCalls :
         /\ (fetch[h].pc = "dequeue" /\ fetch'[h] # fetch[h] /\ NoneQualifies) =>
                /\ fetch'[h] = FetchDone(204)
                /\ UNCHANGED <<dnsRequestChan, dnsRequests, pendingActions, actionChan>>
                /\ Scores' = Scores
         /\ (fetch[h].status # 400 /\ fetch'[h].status = 400) =>
                /\ fetch[h].pc = "idle"
                /\ UNCHANGED dnsRequestChan]_vars

\* ---- the plugin and the coordinator together ----
\* Query q of the plugin is admission q of the coordinator: the POST of
\* GetActionFromGameServer is served by dnsRequestHandler, and what that
\* handler answers is what Client.Post returns, unless the exchange stalls.
PluginTimeout == 35     \* http.Client{Timeout: 35 * time.Second}
RelayMaxTime == 45

ClientTimedOut(q) == now >= plugin[q].posted + PluginTimeout

\* the response of dnsRequestHandler as Client.Post sees it: 200 with the
\* JSON object of lines 256-257, or 503 with the text of http.Error
ResponseOf(r) ==
    [kind |-> "response", timeout |-> FALSE, status |-> admit[r].status,
     body |-> IF admit[r].status = 200
              THEN [kind |-> "object", action |-> admit[r].action]
              ELSE [kind |-> "text", action |-> ""]]

\* ServeDNS posts the query while an admission can still run to its deadline
ServeDNSPostQuery(q, qtype) ==
    /\ now + RequestTimeout <= MaxTime
    /\ ServeDNSPost(q, qtype)

\* the POST arrives: dnsRequestHandler starts for it
AdmitInsertPosted(r) ==
    /\ r \in Queries
    /\ plugin[r].pc = "posted"
    /\ AdmitInsert(r, 1)

\* the exchange stalls (the coordinator or the network stops delivering):
\* nothing comes back to Client.Post
ExchangeStalls(q) ==
    /\ plugin[q].pc = "posted"
    /\ ~plugin[q].stalled
    /\ q \in Requests /\ admit[q].pc # "idle"
    /\ plugin' = [plugin EXCEPT ![q].stalled = TRUE]
    /\ UNCHANGED <<now, clock, req, dnsRequests, pendingActions, actionChan,
                   dnsRequestChan, players, admit, fetch, submit, db, creating, server>>
    /\ UNCHANGED <<register, jobQueue>>

\* Client.Post returns the coordinator's response
ServeDNSAnswer(q, nxt) ==
    /\ q \in Requests
    /\ ~plugin[q].stalled
    /\ admit[q].pc = "done"
    /\ ServeDNSAct(q, ResponseOf(q), nxt)

\* a client deadline as short as the coordinator's own timeout
ServeDNSTimeoutTight(q, nxt) ==
    /\ now >= plugin[q].posted + RequestTimeout
    /\ ServeDNSAct(q, [kind |-> "error", timeout |-> TRUE, status |-> 0,
                       body |-> [kind |-> "text", action |-> ""]], nxt)

\* Client.Timeout expires before a response has come
ServeDNSTimeout(q, nxt) ==
    /\ ClientTimedOut(q)
    /\ ServeDNSAct(q, [kind |-> "error", timeout |-> TRUE, status |-> 0,
                       body |-> [kind |-> "text", action |-> ""]], nxt)

\* a ServeDNS call that can take its next step without waiting
PluginRunnable(q) ==
    \/ plugin[q].pc = "sleeping"
    \/ /\ plugin[q].pc = "posted"
       /\ \/ ClientTimedOut(q)
          \/ ~plugin[q].stalled /\ q \in Requests /\ admit[q].pc \in {"idle", "done"}

\* time passes while a query is outstanding and nothing can run
RelayTick ==
    /\ \A q \in Queries : ~PluginRunnable(q)
    /\ \A r \in Requests : ~AdmitRunnable(r)
    /\ \A h \in FetchCalls : ~FetchRunnable(h)
    /\ \A s \in DOMAIN submit : ~SubmitRunnable(s)
    /\ \E q \in Queries : plugin[q].pc = "posted"
    /\ now + TickStep <= RelayMaxTime
    /\ now' = now + TickStep
    /\ UNCHANGED <<clock, req, dnsRequests, pendingActions, actionChan,
                   dnsRequestChan, players, admit, fetch, submit>>
    /\ UNCHANGED <<db, creating>>
    /\ UNCHANGED <<server, plugin>>
    /\ UNCHANGED <<register, jobQueue>>

\* the queries are of one type and the next plugin answers them
RelayNext ==
    \/ RelayTick
    \/ \E q \in Queries, qtype \in {"A"} : ServeDNSPostQuery(q, qtype)
    \/ \E r \in Requests : AdmitInsertPosted(r)
    \/ \E q \in Queries : ExchangeStalls(q)
    \/ \E q \in Queries, nxt \in {"NOERROR"} : ServeDNSAnswer(q, nxt)
    \/ \E q \in Queries, nxt \in {"NOERROR"} : ServeDNSTimeout(q, nxt)
    \/ \E q \in Queries, nxt \in {"NOERROR"} : ServeDNSWake(q, nxt)
    \/ \E p \in PlayerIds : Register(p)
    \/ \E r \in Requests : AdmitStore(r)
    \/ \E r \in Requests : AdmitEnqueue(r)
    \/ \E r \in Requests : AdmitReject(r)
    \/ \E r \in Requests : AdmitBackoutDelete(r)
    \/ \E r \in Requests : AdmitBackoutSlot(r)
    \/ \E r \in Requests : AdmitReceive(r)
    \/ \E r \in Requests : AdmitTimeout(r)
    \/ \E r \in Requests : AdmitCleanupDelete(r)
    \/ \E r \in Requests : AdmitCleanupSlot(r)
    \/ \E h \in FetchCalls, p \in PlayerIds : FetchCheck(h, p)
    \/ \E h \in FetchCalls : FetchDequeue(h)
    \/ \E h \in FetchCalls : FetchNone(h)
    \/ \E h \in FetchCalls : FetchAssign(h)
    \/ \E s \in SubmitCalls, p \in PlayerIds, id \in Requests, act \in Actions :
           SubmitValidatePlayer(s, p, id, act)
    \/ \E s \in SubmitCalls : SubmitValidateRequest(s)
    \/ \E s \in SubmitCalls : SubmitScore(s)
    \/ \E s \in SubmitCalls : SubmitLoad(s)
    \/ \E s \in SubmitCalls : SubmitSend(s)
RelaySpec == Init /\ [][RelayNext]_vars

\* C37: the plugin's client deadline (35 s) is later than the coordinator's
\* own timeout (30 s).  While the exchange does not stall the deadline is
\* never reached with the query still outstanding; a query whose admission
\* timed out gets the coordinator's `correct' as a normal response and goes to
\* the next stage; the plugin's timeout path is taken only when no response
\* came within the 35 s.
C37_CoordinatorAnswersBeforeDeadline ==
    /\ RequestTimeout < PluginTimeout
    /\ \A q \in Queries :
        /\ (plugin[q].pc = "posted" /\ ~plugin[q].stalled) => ~ClientTimedOut(q)
        /\ (plugin[q].pc \in {"sleeping", "done"} /\ plugin[q].err = "timeout") =>
               plugin[q].stalled /\ ClientTimedOut(q)
        /\ (plugin[q].pc = "done" /\ ~plugin[q].stalled /\ admit[q].woke = "timeout") =>
               /\ plugin[q].err = "nil"
               /\ plugin[q].action = "correct"
               /\ Delegated(q)
C37_Witness ==
    \E q, o \in Queries :
        /\ plugin[q].pc = "done" /\ ~plugin[q].stalled /\ admit[q].woke = "timeout"
        /\ plugin[q].action = "correct" /\ plugin[q].err = "nil"
        /\ plugin[o].pc = "done" /\ plugin[o].stalled /\ plugin[o].err = "timeout"

\* C38: dnsRequestChan is closed only when the shutdown has completed with
\* every handler finished: once main has closed it, no /dnsrequest or /assign
\* handler is in progress and none can send to it or receive from it.
C38_ClosedAfterHandlers ==
    server.closed =>
        /\ \A r \in Requests :
               /\ ~InProgress(admit[r].pc)
               /\ ~ENABLED AdmitInsert(r, 1)
               /\ ~ENABLED AdmitEnqueue(r) /\ ~ENABLED AdmitReject(r)
        /\ \A h \in FetchCalls :
               /\ ~InProgress(fetch[h].pc)
               /\ \A p \in PlayerIds : ~ENABLED FetchCheck(h, p)
               /\ ~ENABLED FetchDequeue(h) /\ ~ENABLED FetchNone(h)
               /\ ~ENABLED FetchAssign(h)
C38_Witness ==
    /\ server.closed
    /\ \E r \in Requests : admit[r].pc = "done" /\ admit[r].status = 200
    /\ \E h \in FetchCalls : fetch[h].pc = "done" /\ fetch[h].status = 200
    /\ \E r \in Requests : admit[r].pc = "idle"

\* ---- JobQueue (queue.go) ----
MaxAttempts == 3     \* for attempts := 0; attempts < 3; attempts++

\* lines 68-75: Submit sends to the buffered channel, or drops the job when
\* the buffer is full
Submit(j) ==
    /\ jobQueue.job[j].state = "new"
    /\ \A i \in Jobs : i < j => jobQueue.job[i].state # "new"
    /\ jobQueue' =
          IF Len(jobQueue.queue) < JobBufferSize
          THEN [jobQueue EXCEPT !.queue = Append(@, j), !.job[j].state = "queued"]
          ELSE [jobQueue EXCEPT !.job[j].state = "dropped"]
    /\ UNCHANGED <<now, clock, req, dnsRequests, pendingActions, actionChan,
                   dnsRequestChan, players, admit, fetch, submit, db, creating, server>>
    /\ UNCHANGED <<plugin, register>>

\* lines 47-50: case job := <-jq.queue, and the loop starts with attempts = 0
WorkerReceive(w) ==
    /\ jobQueue.worker[w].pc = "select"
    /\ jobQueue.queue # <<>>
    /\ LET j == Head(jobQueue.queue) IN
       jobQueue' = [jobQueue EXCEPT !.queue = Tail(@), !.job[j].state = "running",
                                    !.worker[w] = [pc |-> "handle", job |-> j, attempts |-> 0]]
    /\ UNCHANGED <<now, clock, req, dnsRequests, pendingActions, actionChan,
                   dnsRequestChan, players, admit, fetch, submit, db, creating, server>>
    /\ UNCHANGED <<plugin, register>>

\* a loop that tries once more than the three attempts
WorkerSleepFourAttempts(w) ==
    /\ jobQueue.worker[w].pc = "sleep"
    /\ LET j == jobQueue.worker[w].job
           attempts == jobQueue.worker[w].attempts + 1
       IN  jobQueue' =
             IF attempts < MaxAttempts + 1
             THEN [jobQueue EXCEPT !.worker[w].pc = "handle", !.worker[w].attempts = attempts]
             ELSE [jobQueue EXCEPT !.job[j].state = "failed",
                                   !.worker[w] = [pc |-> "select", job |-> 0, attempts |-> 0]]
    /\ UNCHANGED <<now, clock, req, dnsRequests, pendingActions, actionChan,
                   dnsRequestChan, players, admit, fetch, submit, db, creating, server>>
    /\ UNCHANGED <<plugin, register>>

\* lines 52-55: err = jq.handler(job); ok says whether err is nil.  On nil
\* the loop breaks and the worker is back at its select
WorkerHandle(w, ok) ==
    /\ jobQueue.worker[w].pc = "handle"
    /\ LET j == jobQueue.worker[w].job IN
       jobQueue' =
         IF ok
         THEN [jobQueue EXCEPT !.job[j] = [state |-> "done", runs |-> @.runs + 1],
                               !.worker[w] = [pc |-> "select", job |-> 0, attempts |-> 0]]
         ELSE [jobQueue EXCEPT !.job[j].runs = @ + 1, !.worker[w].pc = "sleep"]
    /\ UNCHANGED <<now, clock, req, dnsRequests, pendingActions, actionChan,
                   dnsRequestChan, players, admit, fetch, submit, db, creating, server>>
    /\ UNCHANGED <<plugin, register>>

\* lines 56-62: after the log and the sleep, attempts++; the loop goes on while
\* attempts < 3, otherwise the job is logged as failed permanently and the
\* worker is back at its select
WorkerSleep(w) ==
    /\ jobQueue.worker[w].pc = "sleep"
    /\ LET j == jobQueue.worker[w].job
           attempts == jobQueue.worker[w].attempts + 1
       IN  jobQueue' =
             IF attempts < MaxAttempts
             THEN [jobQueue EXCEPT !.worker[w].pc = "handle", !.worker[w].attempts = attempts]
             ELSE [jobQueue EXCEPT !.job[j].state = "failed",
                                   !.worker[w] = [pc |-> "select", job |-> 0, attempts |-> 0]]
    /\ UNCHANGED <<now, clock, req, dnsRequests, pendingActions, actionChan,
                   dnsRequestChan, players, admit, fetch, submit, db, creating, server>>
    /\ UNCHANGED <<plugin, register>>

\* lines 63-64 and 45: case <-jq.shutdown: return, and the deferred wg.Done()
WorkerExit(w) ==
    /\ jobQueue.worker[w].pc = "select"
    /\ jobQueue.shutdown = "closed"
    /\ jobQueue' = [jobQueue EXCEPT !.worker[w].pc = "exited"]
    /\ UNCHANGED <<now, clock, req, dnsRequests, pendingActions, actionChan,
                   dnsRequestChan, players, admit, fetch, submit, db, creating, server>>
    /\ UNCHANGED <<plugin, register>>

\* line 78: close(jq.shutdown)
ShutdownClose ==
    /\ jobQueue.caller = "idle"
    /\ jobQueue' = [jobQueue EXCEPT !.shutdown = "closed", !.caller = "waiting"]
    /\ UNCHANGED <<now, clock, req, dnsRequests, pendingActions, actionChan,
                   dnsRequestChan, players, admit, fetch, submit, db, creating, server>>
    /\ UNCHANGED <<plugin, register>>

\* a Shutdown that does not wait for the workers
ShutdownReturnAtOnce ==
    /\ jobQueue.caller = "waiting"
    /\ jobQueue' = [jobQueue EXCEPT !.caller = "returned"]
    /\ UNCHANGED <<now, clock, req, dnsRequests, pendingActions, actionChan,
                   dnsRequestChan, players, admit, fetch, submit, db, creating, server>>
    /\ UNCHANGED <<plugin, register>>

\* line 79: jq.wg.Wait() returns when every worker has called wg.Done()
ShutdownReturn ==
    /\ jobQueue.caller = "waiting"
    /\ \A w \in Workers : jobQueue.worker[w].pc = "exited"
    /\ jobQueue' = [jobQueue EXCEPT !.caller = "returned"]
    /\ UNCHANGED <<now, clock, req, dnsRequests, pendingActions, actionChan,
                   dnsRequestChan, players, admit, fetch, submit, db, creating, server>>
    /\ UNCHANGED <<plugin, register>>

JobQueueNext ==
    \/ \E j \in Jobs : Submit(j)
    \/ \E w \in Workers : WorkerReceive(w)
    \/ \E w \in Workers, ok \in BOOLEAN : WorkerHandle(w, ok)
    \/ \E w \in Workers : WorkerSleep(w)
    \/ \E w \in Workers : WorkerExit(w)
    \/ ShutdownClose
    \/ ShutdownReturn
JobQueueSpec == Init /\ [][JobQueueNext]_vars

\* every goroutine that can run is scheduled, the handler returns and the sleep
\* ends
FairJobQueueSpec ==
    /\ JobQueueSpec
    /\ \A w \in Workers :
           /\ WF_vars(\E ok \in BOOLEAN : WorkerHandle(w, ok))
           /\ WF_vars(WorkerSleep(w))
           /\ WF_vars(WorkerReceive(w) \/ WorkerExit(w))
    /\ WF_vars(ShutdownReturn)

\* C39: a worker runs the handler at most three times for a job: it stops at
\* the first nil error, and after the third failure it gives the job up and is
\* back at its select.  Submit never waits: with room in the buffer it
\* enqueues the job, with a full buffer it drops it.
HeldBy(w, j) == jobQueue.worker[w].pc \in {"handle", "sleep"} /\ jobQueue.worker[w].job = j
InBuffer(j) == \E i \in DOMAIN jobQueue.queue : jobQueue.queue[i] = j
C39_ThreeAttemptsThenDrop ==
    /\ \A j \in Jobs :
        LET job == jobQueue.job[j] IN
        /\ job.runs <= MaxAttempts
        /\ job.state \in {"new", "queued", "dropped"} => job.runs = 0
        /\ job.state = "done" => job.runs \in 1..MaxAttempts
        /\ job.state = "failed" => job.runs = MaxAttempts
        /\ job.state \in {"done", "failed", "dropped"} =>
               ~InBuffer(j) /\ \A w \in Workers : ~HeldBy(w, j)
        /\ (job.state = "new" /\ \A i \in Jobs : i < j => jobQueue.job[i].state # "new") =>
               /\ ENABLED Submit(j)
               /\ Len(jobQueue.queue) < JobBufferSize =>
                      ENABLED (Submit(j) /\ jobQueue'.queue = Append(jobQueue.queue, j))
               /\ Len(jobQueue.queue) >= JobBufferSize =>
                      ENABLED (Submit(j) /\ jobQueue'.queue = jobQueue.queue
                                         /\ jobQueue'.job[j].state = "dropped")
    /\ \A w \in Workers :
        LET wk == jobQueue.worker[w] IN
        /\ wk.pc = "handle" =>
               /\ jobQueue.job[wk.job].state = "running"
               /\ jobQueue.job[wk.job].runs = wk.attempts
               /\ wk.attempts < MaxAttempts
               /\ ENABLED (WorkerHandle(w, TRUE) /\ jobQueue'.job[wk.job].state = "done"
                                                 /\ jobQueue'.worker[w].pc = "select")
        /\ wk.pc = "sleep" =>
               /\ jobQueue.job[wk.job].state = "running"
               /\ jobQueue.job[wk.job].runs = wk.attempts + 1
               /\ jobQueue.job[wk.job].runs = MaxAttempts =>
                      ENABLED (WorkerSleep(w) /\ jobQueue'.job[wk.job].state = "failed"
                                              /\ jobQueue'.worker[w].pc = "select")
C39_Witness ==
    \E a, b, c \in Jobs :
        /\ jobQueue.job[a].state = "failed" /\ jobQueue.job[a].runs = MaxAttempts
        /\ jobQueue.job[b].state = "done" /\ jobQueue.job[b].runs = 2
        /\ jobQueue.job[c].state = "dropped"

\* C40: Shutdown eventually returns, and only after every worker has exited:
\* when it has returned, no job is still being processed (a job that a worker
\* had taken was run to success or to its third failure) and no worker can
\* receive a job or call the handler any more.
ShutdownReturned == jobQueue.caller = "returned"
C40_ShutdownWaitsForWorkers ==
    /\ [](ShutdownReturned =>
             /\ \A w \in Workers :
                    /\ jobQueue.worker[w].pc = "exited"
                    /\ ~ENABLED WorkerReceive(w)
                    /\ \A ok \in BOOLEAN : ~ENABLED WorkerHandle(w, ok)
             /\ \A j \in Jobs : jobQueue.job[j].state # "running")
    /\ (jobQueue.caller = "waiting") ~> ShutdownReturned
C40_Witness ==
    /\ ShutdownReturned
    /\ \E j \in Jobs : jobQueue.job[j].state = "failed"
    /\ \E j \in Jobs : jobQueue.job[j].state = "done" /\ jobQueue.job[j].runs > 1
    /\ \E j \in Jobs : jobQueue.job[j].state = "queued"

====
